---- MODULE Spec2Model ----
(***************************************************************************)
(* A model of mongoengine's document core (mongoengine/base.py): the       *)
(* document metaclasses and the class registry, the field descriptors,     *)
(* the codec (to_mongo / _from_son), and, on top of them, the save/delta   *)
(* path and the reverse-delete-rule engine of the Document class.          *)
(*                                                                         *)
(* Python values are modelled as follows.  None is the string "None".  A   *)
(* dict is a function whose DOMAIN is its key set; where the code iterates *)
(* over a dict (Python 2: in hash order, which the program does not        *)
(* control) the iteration order is a sequence chosen nondeterministically  *)
(* when the dict is built.  A class is an index into `classes`; index 0    *)
(* stands for the framework bases Document / EmbeddedDocument, which have  *)
(* neither _fields nor _meta.  A dotted class name 'Animal.Mammal' is the  *)
(* sequence <<"Animal","Mammal">> (class names hold no dot, so joining is  *)
(* injective).                                                             *)
(***************************************************************************)
EXTENDS Integers, Sequences, FiniteSets, TLC

VARIABLES
    classes,    \* every class object created by the metaclasses, in creation order
    registry,   \* _document_registry: class name -> class
    store,      \* the database: collection name -> (_id -> raw record)
    insts,      \* the in-memory document instances of the scenario
    last,       \* the last operation performed and what it returned or raised
    hist        \* history of the scenario (what each instance did since its load;
                \* the store as it was before the last delete)

vars == <<classes, registry, store, insts, last, hist>>

(***************************************************************************)
(* Bounds of the model.                                                    *)
(***************************************************************************)
MaxClasses == 3

(***************************************************************************)
(* Python helpers.                                                         *)
(***************************************************************************)
None == "None"

EmptyDict == [k \in {} |-> None]

\* dict.get(k, dflt)
Get(d, k, dflt) == IF k \in DOMAIN d THEN d[k] ELSE dflt

\* dict.update(e): the keys of e win
Update(d, e) == [k \in (DOMAIN d) \cup (DOMAIN e) |-> IF k \in DOMAIN e THEN e[k] ELSE d[k]]

\* d[k] = v
Put(d, k, v) == [x \in (DOMAIN d) \cup {k} |-> IF x = k THEN v ELSE d[x]]

\* del d[k]
Del(d, k) == [x \in (DOMAIN d) \ {k} |-> d[x]]

Range(s) == {s[i] : i \in DOMAIN s}

\* the orders in which a dict with key set S may be iterated
Orders(S) == {s \in [1..Cardinality(S) -> S] : Range(s) = S}

\* str.lower() on the class names the model uses
Lower(n) ==
    CASE n = "Animal"   -> "animal"
      [] n = "Mammal"   -> "mammal"
      [] n = "Dog"      -> "dog"
      [] n = "Human"    -> "human"
      [] n = "Fish"     -> "fish"
      [] n = "Person"   -> "person"
      [] n = "BlogPost" -> "blogpost"
      [] n = "Comment"  -> "comment"
      [] n = "Doc"      -> "doc"
      [] OTHER          -> n

(***************************************************************************)
(* Delete rules (queryset.DO_NOTHING and its siblings).                    *)
(***************************************************************************)
DO_NOTHING == "DO_NOTHING"
NULLIFY == "NULLIFY"
CASCADE == "CASCADE"
DENY == "DENY"

(***************************************************************************)
(* Field descriptors.                                                      *)
(***************************************************************************)
\* BaseField.__init__: the storage key of a primary key is always '_id'
BaseField_init(ftype, db_field, primary_key, default, document_type, reverse_delete_rule) ==
    [ftype |-> ftype,
     name |-> None,
     db_field |-> IF primary_key THEN "_id" ELSE db_field,
     required |-> primary_key,
     default |-> default,
     primary_key |-> primary_key,
     document_type |-> document_type,
     reverse_delete_rule |-> reverse_delete_rule]

\* a plain field (StringField, IntField ...): BaseField's conversions
PlainField(db_field, default) ==
    BaseField_init("BaseField", db_field, FALSE, default, 0, DO_NOTHING)

\* ObjectIdField(db_field='_id'), the synthesized identifier field
ObjectIdField(db_field) ==
    BaseField_init("ObjectIdField", db_field, FALSE, None, 0, DO_NOTHING)

\* ReferenceField(document_type, reverse_delete_rule=rule)
ReferenceField(document_type, rule) ==
    BaseField_init("ReferenceField", None, FALSE, None, document_type, rule)

(***************************************************************************)
(* Object ids.  An identifier is None, an ObjectId ("oid1", "oid2") or the *)
(* string form of an ObjectId ("str1" is unicode of "oid1").               *)
(***************************************************************************)
ObjectIds == {"oid1", "oid2"}

\* pymongo.objectid.ObjectId(unicode(value)) for a value that is no ObjectId
ObjectId_parse(value) ==
    CASE value = "str1" -> "oid1"
      [] value = "str2" -> "oid2"
      [] OTHER          -> "ValidationError"

\* ObjectIdField.to_mongo
ObjectIdField_to_mongo(value) ==
    IF value \in ObjectIds THEN value ELSE ObjectId_parse(value)

\* BaseField.to_python / ObjectIdField.to_python: the value itself
Field_to_python(field, value) == value

\* a reference as stored: DBRef(collection, id)
DBRef(collection, id) == collection \o "/" \o id

\* ReferenceField.to_mongo: the DBRef of the referenced document, whose
\* identifier is what the field holds
ReferenceField_to_mongo(cls, field, value) ==
    LET id == ObjectIdField_to_mongo(value)
    IN  IF id = "ValidationError" THEN id
        ELSE DBRef(cls[field.document_type].meta["collection"], id)

\* field.to_mongo(value): BaseField.to_mongo is to_python; ObjectIdField and
\* ReferenceField override it
Field_to_mongo(cls, field, value) ==
    CASE field.ftype = "ObjectIdField"  -> ObjectIdField_to_mongo(value)
      [] field.ftype = "ReferenceField" -> ReferenceField_to_mongo(cls, field, value)
      [] OTHER                          -> Field_to_python(field, value)

(***************************************************************************)
(* Classes.  A class statement `class name(base): meta = ...; f = Field()` *)
(* is the record attrs = [name, base, kind, meta, fields]; kind tells      *)
(* which metaclass builds it ("doc": TopLevelDocumentMetaclass,            *)
(* "embedded": DocumentMetaclass alone).                                   *)
(***************************************************************************)
Attrs(name, base, kind, meta, fields) ==
    [name |-> name, base |-> base, kind |-> kind, meta |-> meta, fields |-> fields]

Ok(cls, reg) == [err |-> None, classes |-> cls, registry |-> reg]
Raise(e, cls, reg) == [err |-> e, classes |-> cls, registry |-> reg]

\* Document.register_delete_rule(document_cls, field_name, rule), called on
\* the referenced class: _meta['delete_rules'][(document_cls, field_name)] = rule
register_delete_rule(target, document_cls, field_name, rule) ==
    [target EXCEPT !.meta =
        Put(target.meta, "delete_rules",
            Put(target.meta["delete_rules"], <<document_cls, field_name>>, rule))]

\* a class statement that registers no delete rule
RegisterRules_none(cls, new_id, todo) == cls

\* the loop of DocumentMetaclass.__new__ over new_class._fields.values():
\* every field (inherited ones too) whose rule is not DO_NOTHING registers
\* it on the class the field points at
RECURSIVE RegisterRules(_, _, _)
RegisterRules(cls, new_id, todo) ==
    IF todo = {} THEN cls
    ELSE LET fname == CHOOSE f \in todo : TRUE
             field == cls[new_id].fields[fname]
             delete_rule == field.reverse_delete_rule
             t == field.document_type
             cls2 == IF delete_rule # DO_NOTHING
                     THEN [cls EXCEPT ![t] = register_delete_rule(cls[t], new_id, fname, delete_rule)]
                     ELSE cls
         IN RegisterRules(cls2, new_id, todo \ {fname})

\* the merged _superclasses dict of a class whose base is `base`
SuperclassIds(cls, base) ==
    IF base = 0 THEN {} ELSE {base} \cup Range(cls[base].superclasses)

\* attrs['_class_name'] = '.'.join(reversed(class_name))
ClassNameOf(cls, name, base) ==
    IF base = 0 THEN <<name>> ELSE Append(cls[base].class_name, name)

\* DocumentMetaclass.__new__.  meta0 is attrs.get('_meta', attrs.get('meta', {})),
\* skeys the iteration order of the new _superclasses dict.
DocumentMetaclass_new(cls, reg, attrs, meta0, skeys) ==
    LET base == attrs.base
        hasBase == base # 0
        doc_fields == IF hasBase THEN cls[base].fields ELSE EmptyDict
        class_name == ClassNameOf(cls, attrs.name, base)
        baseConcrete == hasBase /\ ~Get(cls[base].meta, "abstract", FALSE)
        simple_class == ~baseConcrete
        meta == IF "allow_inheritance" \in DOMAIN meta0 THEN meta0
                ELSE Put(meta0, "allow_inheritance", TRUE)
        own == [f \in DOMAIN attrs.fields |->
                  [attrs.fields[f] EXCEPT
                     !.name = f,
                     !.db_field = IF attrs.fields[f].db_field = None THEN f
                                  ELSE attrs.fields[f].db_field]]
        new_id == Len(cls) + 1
        new_class == [name |-> attrs.name,
                      kind |-> attrs.kind,
                      base |-> base,
                      attrs |-> attrs,
                      class_name |-> class_name,
                      superclasses |-> skeys,
                      meta |-> meta,
                      fields |-> Update(doc_fields, own),
                      forder |-> <<>>]
        cls1 == Append(cls, new_class)
        targets == {new_class.fields[f].document_type :
                       f \in {g \in DOMAIN new_class.fields :
                                new_class.fields[g].reverse_delete_rule # DO_NOTHING}}
    IN  IF baseConcrete /\ Get(cls[base].meta, "allow_inheritance", TRUE) = FALSE
        THEN Raise("ValueError", cls, reg)
        ELSE IF ~simple_class /\ ~meta["allow_inheritance"] /\ "abstract" \notin DOMAIN meta
        THEN Raise("KeyError", cls, reg)
        ELSE IF ~simple_class /\ ~meta["allow_inheritance"] /\ ~meta["abstract"]
        THEN Raise("ValueError", cls, reg)
        ELSE IF \E t \in targets : "delete_rules" \notin DOMAIN cls1[t].meta
        THEN Raise("KeyError", cls1, reg)
        ELSE Ok(RegisterRules(cls1, new_id, DOMAIN new_class.fields),
                Put(reg, attrs.name, new_id))

\* the declared primary keys of a class, and the check of
\* TopLevelDocumentMetaclass.__new__ on them: a primary key under another
\* name than the id_field already set is refused
PrimaryKeys(c) == {f \in DOMAIN c.fields : c.fields[f].primary_key}

\* top-level classes built by DocumentMetaclass alone, as embedded ones are
TopLevelDocumentMetaclass_plain(cls, reg, attrs, skeys) ==
    DocumentMetaclass_new(cls, reg, attrs, attrs.meta, skeys)

\* TopLevelDocumentMetaclass.__new__
TopLevelDocumentMetaclass_new(cls, reg, attrs, skeys) ==
    LET base == attrs.base
        hasBase == base # 0
        bmeta == IF hasBase THEN cls[base].meta ELSE EmptyDict
    IN  IF Get(attrs.meta, "abstract", FALSE)
        THEN IF hasBase /\ ~Get(bmeta, "abstract", FALSE)
             THEN Raise("ValueError", cls, reg)
             ELSE DocumentMetaclass_new(cls, reg, attrs, attrs.meta, skeys)
        ELSE
        LET collection == IF "collection" \in DOMAIN bmeta THEN bmeta["collection"]
                          ELSE Lower(attrs.name)
            id_field == Get(bmeta, "id_field", None)
            base_meta == IF "allow_inheritance" \in DOMAIN bmeta
                         THEN [allow_inheritance |-> bmeta["allow_inheritance"]]
                         ELSE EmptyDict
            meta == Update(Update([abstract |-> FALSE,
                                   collection |-> collection,
                                   id_field |-> id_field,
                                   delete_rules |-> EmptyDict,
                                   allow_inheritance |-> TRUE],
                                  base_meta),
                           attrs.meta)
            r == DocumentMetaclass_new(cls, reg, attrs, meta, skeys)
        IN  IF r.err # None THEN r
            ELSE
            LET new_id == Len(r.classes)
                c == r.classes[new_id]
                pks == PrimaryKeys(c)
                current_pk == c.meta["id_field"]
            IN  IF \/ \E f \in pks : current_pk # None /\ current_pk # f
                   \/ \E f, g \in pks : f # g
                THEN Raise("ValueError", r.classes, r.registry)
                ELSE
                LET idf == IF current_pk # None THEN current_pk
                           ELSE IF pks # {} THEN CHOOSE f \in pks : TRUE
                           ELSE "id"
                    fields2 == IF current_pk = None /\ pks = {}
                               THEN Put(c.fields, "id",
                                        [ObjectIdField("_id") EXCEPT !.name = None])
                               ELSE c.fields
                    c2 == [c EXCEPT !.meta = Put(c.meta, "id_field", idf),
                                    !.fields = fields2]
                IN  Ok([r.classes EXCEPT ![new_id] = c2], r.registry)

\* a class statement that leaves the entry of a name already registered
ClassStatement_keepfirst(cls, reg, attrs, skeys) ==
    LET r == IF attrs.kind = "doc"
             THEN TopLevelDocumentMetaclass_new(cls, reg, attrs, skeys)
             ELSE DocumentMetaclass_new(cls, reg, attrs, attrs.meta, skeys)
    IN  [r EXCEPT !.registry = IF attrs.name \in DOMAIN reg THEN reg ELSE @]

\* the class statement: Python picks the metaclass of the base
ClassStatement(cls, reg, attrs, skeys) ==
    IF attrs.kind = "doc"
    THEN TopLevelDocumentMetaclass_new(cls, reg, attrs, skeys)
    ELSE DocumentMetaclass_new(cls, reg, attrs, attrs.meta, skeys)

\* the order in which the _fields dict of the class just created iterates
\* (forder), fixed once the dict holds its last key
WithFieldOrder(cls, r, forder) ==
    IF Len(r.classes) > Len(cls)
    THEN [r EXCEPT !.classes[Len(r.classes)].forder = forder]
    ELSE r

FieldOrders(cls, r) ==
    IF Len(r.classes) > Len(cls)
    THEN Orders(DOMAIN r.classes[Len(r.classes)].fields)
    ELSE {<<>>}

(***************************************************************************)
(* Document instances.  An instance is [cls, data, has_present, present,   *)
(* fresh, changed]: data is _data (keyed by field.name: the synthesized    *)
(* 'id' field is never named by the metaclass loop, so its value lives     *)
(* under the key None); present is _present_fields and has_present tells   *)
(* whether the attribute exists; fresh and changed are the change tracking *)
(* of the Document class (fresh: constructed directly and never persisted, *)
(* changed: the fields assigned since the last load or persist).           *)
(***************************************************************************)
\* a read that does not fall back to the default
Field_get_nodefault(inst, field) == Get(inst.data, field.name, None)

\* BaseField.__get__: a value of None reads as the field's default
Field_get(inst, field) ==
    LET value == Get(inst.data, field.name, None)
    IN  IF value = None THEN field.default ELSE value

\* BaseField.__set__
Field_set(inst, field, value) ==
    LET key == field.name
    IN  [inst EXCEPT
            !.data = Put(inst.data, key, value),
            !.present = IF inst.has_present /\ key # None /\ key \notin Range(inst.present)
                        THEN Append(inst.present, field.name)
                        ELSE inst.present]

\* getattr(self, field_name)
GetAttr(cls, inst, fname) == Field_get(inst, cls[inst.cls].fields[fname])

\* setattr(self, attr_name, value): a field's descriptor when the class has
\* a field of that name, a plain attribute of the object otherwise
SetAttr(cls, inst, attr_name, value) ==
    IF attr_name \in DOMAIN cls[inst.cls].fields
    THEN Field_set(inst, cls[inst.cls].fields[attr_name], value)
    ELSE inst

\* BaseDocument.__init__, first loop: every field is assigned its default
RECURSIVE InitDefaults(_, _, _)
InitDefaults(cls, inst, todo) ==
    IF todo = <<>> THEN inst
    ELSE InitDefaults(cls,
                      SetAttr(cls, inst, Head(todo), GetAttr(cls, inst, Head(todo))),
                      Tail(todo))

\* BaseDocument.__init__, second loop: the keyword arguments are assigned
RECURSIVE InitValues(_, _, _, _)
InitValues(cls, inst, values, todo) ==
    IF todo = {} THEN inst
    ELSE LET k == CHOOSE x \in todo : TRUE
         IN  InitValues(cls, SetAttr(cls, inst, k, values[k]), values, todo \ {k})

\* BaseDocument.__init__(**values) on class c
BaseDocument_init(cls, c, values) ==
    LET blank == [cls |-> c, data |-> EmptyDict, has_present |-> FALSE, present |-> <<>>,
                  fresh |-> TRUE, changed |-> {}]
    IN  InitValues(cls, InitDefaults(cls, blank, cls[c].forder), values, DOMAIN values)

\* the first loop of to_mongo: data[field.db_field] = field.to_mongo(value)
\* for every field whose value is not None, in the order of _fields
RECURSIVE EncodeFields(_, _, _, _)
EncodeFields(cls, inst, todo, data) ==
    IF todo = <<>> THEN data
    ELSE LET field == cls[inst.cls].fields[Head(todo)]
             value == Field_get(inst, field)
         IN  EncodeFields(cls, inst, Tail(todo),
                          IF value # None
                          THEN Put(data, field.db_field, Field_to_mongo(cls, field, value))
                          ELSE data)

\* the names of the superclasses alone
TypesOf_noself(cls, c) ==
    [i \in 1..Len(cls[c].superclasses) |-> cls[cls[c].superclasses[i]].class_name]

\* self._superclasses.keys() + [self._class_name]
TypesOf(cls, c) ==
    [i \in 1..Len(cls[c].superclasses) |-> cls[cls[c].superclasses[i]].class_name]
        \o <<cls[c].class_name>>

\* what to_mongo yields when a field's to_mongo raises ValidationError
ValidationErrorRaised == [raised |-> "ValidationError"]

\* BaseDocument.to_mongo
to_mongo(cls, inst) ==
    LET c == cls[inst.cls]
        data == EncodeFields(cls, inst, c.forder, EmptyDict)
        data2 == IF ~(Get(c.meta, "allow_inheritance", TRUE) = FALSE)
                 THEN Put(Put(data, "_cls", c.class_name), "_types", TypesOf(cls, inst.cls))
                 ELSE data
    IN  IF \E k \in DOMAIN data : data[k] = "ValidationError"
        THEN ValidationErrorRaised
        ELSE IF "_id" \in DOMAIN data2 /\ data2["_id"] = None
        THEN Del(data2, "_id")
        ELSE data2

\* cls.__subclasses__(): the classes built directly on c, in creation order
Subclasses(cls, c) == {d \in 1..Len(cls) : cls[d].base = c}

RECURSIVE get_subclasses(_, _)

\* the direct subclasses alone
get_subclasses_direct(cls, c) ==
    [n \in {cls[d].class_name : d \in Subclasses(cls, c)} |->
        CHOOSE d \in Subclasses(cls, c) :
            /\ cls[d].class_name = n
            /\ \A e \in Subclasses(cls, c) : cls[e].class_name = n => e <= d]

\* BaseDocument._get_subclasses: _class_name -> class, found recursively
\* (where two subclasses bear one name the class created last is kept)
get_subclasses(cls, c) ==
    LET subs == Subclasses(cls, c)
        below == [d \in subs |-> get_subclasses(cls, d)]
        names == {cls[d].class_name : d \in subs}
                    \cup UNION {DOMAIN below[d] : d \in subs}
        \* the entries are written in creation order of the direct
        \* subclasses, each followed by its own descendants
        writer(n) == CHOOSE d \in subs :
                        /\ cls[d].class_name = n \/ n \in DOMAIN below[d]
                        /\ \A e \in subs :
                              (cls[e].class_name = n \/ n \in DOMAIN below[e]) => e <= d
    IN  [n \in names |->
            IF n \in DOMAIN below[writer(n)] THEN below[writer(n)][n] ELSE writer(n)]

\* the loop of _from_son over cls._fields: data[field_name] = to_python(data[db_field])
RECURSIVE DecodeFields(_, _, _, _)
DecodeFields(cls, c, todo, data) ==
    IF todo = <<>> THEN data
    ELSE LET field == cls[c].fields[Head(todo)]
         IN  DecodeFields(cls, c, Tail(todo),
                 IF field.db_field \in DOMAIN data
                 THEN Put(data, Head(todo),
                          IF data[field.db_field] = None THEN None
                          ELSE Field_to_python(field, data[field.db_field]))
                 ELSE data)

\* the None that _from_son returns, as an instance record of no class
NoDocument == [cls |-> 0, data |-> EmptyDict, has_present |-> FALSE, present |-> <<>>,
               fresh |-> TRUE, changed |-> {}]

\* a decoder that falls back to the class it was called on when the
\* record's class is not among the subclasses
from_son_fallback(cls, c, son, korder) ==
    LET class_name == Get(son, "_cls", cls[c].class_name)
        data == Del(Del(son, "_types"), "_cls")
        subclasses == get_subclasses(cls, c)
        k == IF class_name \in DOMAIN subclasses THEN subclasses[class_name] ELSE c
        obj == BaseDocument_init(cls, k, DecodeFields(cls, k, cls[k].forder, data))
    IN  [obj EXCEPT !.has_present = TRUE, !.present = korder]

\* BaseDocument._from_son, called on class c; None when the record's class
\* is not c and not found among c's subclasses.  korder is the order of
\* data.keys().
from_son(cls, c, son, korder) ==
    LET class_name == Get(son, "_cls", cls[c].class_name)
        data == Del(Del(son, "_types"), "_cls")
        subclasses == get_subclasses(cls, c)
    IN  IF class_name # cls[c].class_name /\ class_name \notin DOMAIN subclasses
        THEN NoDocument
        ELSE LET k == IF class_name # cls[c].class_name THEN subclasses[class_name] ELSE c
                 obj == BaseDocument_init(cls, k, DecodeFields(cls, k, cls[k].forder, data))
             IN  [obj EXCEPT !.has_present = TRUE, !.present = korder]

(***************************************************************************)
(* SpecSchema: class statements in any order, and the codec applied to the *)
(* classes they build.  The n-th class statement names its class           *)
(* SchemaNames[n]; it may extend any class built so far.  The codec calls  *)
(* change no class and no registry entry, so a behaviour is a sequence of  *)
(* class statements followed by one codec call, whose outcome `last` keeps.*)
(***************************************************************************)
SchemaNames == <<"Animal", "Mammal", "Dog", "Human", "Fish">>

\* the meta dict of a class statement: the keys it writes down
DeclaredMeta(abstract, allow) ==
    Update(IF abstract THEN [abstract |-> TRUE] ELSE EmptyDict,
           IF allow = "False" THEN [allow_inheritance |-> FALSE] ELSE EmptyDict)

NoOp == [op |-> "none"]

InitSchema ==
    /\ classes = <<>>
    /\ registry = EmptyDict
    /\ store = EmptyDict
    /\ insts = <<>>
    /\ last = NoOp
    /\ hist = <<>>

\* class SchemaNames[n](base): meta = {...}
Defining == last.op \in {"none", "class"}

DefineClass ==
    /\ Defining
    /\ Len(classes) < MaxClasses
    /\ \E base \in 0..Len(classes), kind \in {"doc", "embedded"},
          abstract \in BOOLEAN, allow \in {"undeclared", "False"} :
         /\ base # 0 => kind = classes[base].kind
         /\ LET name == SchemaNames[(Len(classes) % Len(SchemaNames)) + 1]
                attrs == Attrs(name, base, kind, DeclaredMeta(abstract, allow), EmptyDict)
            IN  \E skeys \in Orders(SuperclassIds(classes, base)) :
                  LET r0 == ClassStatement(classes, registry, attrs, skeys)
                  IN  \E forder \in FieldOrders(classes, r0) :
                        LET r == WithFieldOrder(classes, r0, forder)
                        IN  /\ classes' = r.classes
                            /\ registry' = r.registry
                            /\ last' = [op |-> "class", attrs |-> attrs, err |-> r.err]
    /\ UNCHANGED <<store, insts, hist>>

\* an instance of class c as the constructor leaves it, its identifier set
NewInstance(cls, c, id) ==
    IF "id" \in DOMAIN cls[c].fields
    THEN SetAttr(cls, BaseDocument_init(cls, c, EmptyDict), "id", id)
    ELSE BaseDocument_init(cls, c, EmptyDict)

\* c(id=...).to_mongo()
EncodeInstance ==
    /\ Defining
    /\ \E c \in 1..Len(classes) :
         last' = [op |-> "to_mongo", cls |-> c,
                  result |-> to_mongo(classes, NewInstance(classes, c, "oid1"))]
    /\ UNCHANGED <<classes, registry, store, insts, hist>>

\* the raw records the decoder is given: what any class built so far
\* encodes, and a record whose _cls names no class
UnknownName == <<"Ghost">>

Sons(cls) ==
    {to_mongo(cls, NewInstance(cls, d, "oid1")) : d \in 1..Len(cls)}
        \cup {[_id |-> "oid1", _cls |-> UnknownName, _types |-> <<UnknownName>>]}

\* S._from_son(son)
DecodeRecord ==
    /\ Defining
    /\ \E S \in 1..Len(classes), son \in Sons(classes) :
         \E korder \in Orders(DOMAIN son \ {"_cls", "_types"}) :
            last' = [op |-> "from_son", cls |-> S, son |-> son,
                     result |-> from_son(classes, S, son, korder)]
    /\ UNCHANGED <<classes, registry, store, insts, hist>>

NextSchema == DefineClass \/ EncodeInstance \/ DecodeRecord

SpecSchema == InitSchema /\ [][NextSchema]_vars

(***************************************************************************)
(* Hierarchy vocabulary of the claims, read off the class statements       *)
(* (attrs) and the base links, not off what the metaclasses computed.      *)
(***************************************************************************)
RECURSIVE IsAncestor(_, _, _)
IsAncestor(cls, a, d) ==
    /\ d # 0
    /\ cls[d].base # 0
    /\ (cls[d].base = a \/ IsAncestor(cls, a, cls[d].base))

DescendantsOrSelf(cls, c) == {c} \cup {d \in 1..Len(cls) : IsAncestor(cls, c, d)}

\* the qualified names of the ancestors of c and of c, root first
RootToLeaf(cls, c) ==
    [i \in 1..Len(cls[c].class_name) |-> SubSeq(cls[c].class_name, 1, i)]

\* allow_inheritance as the class statements give it: the class's own
\* declaration, else the one inherited from its base, else True
RECURSIVE DeclaredAllow(_, _)
DeclaredAllow(cls, c) ==
    IF "allow_inheritance" \in DOMAIN cls[c].attrs.meta
    THEN cls[c].attrs.meta["allow_inheritance"]
    ELSE IF cls[c].base # 0 THEN DeclaredAllow(cls, cls[c].base)
    ELSE TRUE

Encoded == last.op = "to_mongo" /\ "raised" \notin DOMAIN last.result

(***************************************************************************)
(* C8 (as stated): the record of an instance of a schema that permits      *)
(* polymorphism has _cls equal to the qualified name and _types equal to   *)
(* the ancestors' qualified names in root-to-leaf order followed by its    *)
(* own.                                                                    *)
(***************************************************************************)
C8_TypesRootToLeaf ==
    (Encoded /\ classes[last.cls].meta["allow_inheritance"])
        => /\ last.result["_cls"] = classes[last.cls].class_name
           /\ last.result["_types"] = RootToLeaf(classes, last.cls)

(***************************************************************************)
(* C8 (amended): _cls is the qualified name; _types holds every ancestor's *)
(* qualified name exactly once, in the iteration order of the _superclasses*)
(* dict (which the code does not fix), and the schema's own qualified name *)
(* as its last element.                                                    *)
(***************************************************************************)
C8_TypesAncestorsThenSelf ==
    (Encoded /\ classes[last.cls].meta["allow_inheritance"])
        => LET t == last.result["_types"]
               cn == classes[last.cls].class_name
           IN  /\ last.result["_cls"] = cn
               /\ Len(t) = Len(cn)
               /\ t[Len(t)] = cn
               /\ Range(t) = Range(RootToLeaf(classes, last.cls))

C8_Witness ==
    /\ Encoded
    /\ classes[last.cls].meta["allow_inheritance"]
    /\ Len(classes[last.cls].class_name) >= 3
    /\ last.result["_types"] = RootToLeaf(classes, last.cls)

(***************************************************************************)
(* C9: an instance of a schema whose allow_inheritance is false, set on    *)
(* the schema itself or inherited from an abstract base, never encodes a   *)
(* record with the keys _cls or _types (top-level and embedded alike).     *)
(***************************************************************************)
C9_NoClsWhenInheritanceOff ==
    (Encoded /\ ~DeclaredAllow(classes, last.cls))
        => /\ "_cls" \notin DOMAIN last.result
           /\ "_types" \notin DOMAIN last.result

(***************************************************************************)
(* C10: decoding a record through schema S returns an instance of the      *)
(* class named by the record's _cls when that names S or a transitive      *)
(* subclass of S, and an instance of S when the record has no _cls.        *)
(***************************************************************************)
C10_PolymorphicDecode ==
    last.op = "from_son" =>
        LET S == last.cls
            son == last.son
        IN  /\ "_cls" \notin DOMAIN son => last.result.cls = S
            /\ \A d \in DescendantsOrSelf(classes, S) :
                  ("_cls" \in DOMAIN son /\ son["_cls"] = classes[d].class_name)
                      => last.result.cls = d

C10_Witness ==
    /\ last.op = "from_son"
    /\ "_cls" \in DOMAIN last.son
    /\ last.result.cls # 0
    /\ IsAncestor(classes, last.cls, classes[last.result.cls].base)
    /\ last.son["_cls"] = classes[last.result.cls].class_name

(***************************************************************************)
(* SpecCodec: one top-level class Doc with two plain fields a and b, whose *)
(* storage keys (db_field) are drawn from {a, b, c} and differ from each   *)
(* other, and one instance of it that is assigned values and sent through  *)
(* to_mongo and back through _from_son.                                    *)
(***************************************************************************)
CodecKeys == {None, "a", "b", "c"}
CodecValues == {None, "v1", "v2"}
CodecIds == {None, "oid1", "str1"}

\* class Doc(Document): a = Field(db_field=ka, default=da); b = Field(db_field=kb)
CodecAttrs(ka, kb, da) ==
    Attrs("Doc", 0, "doc", EmptyDict,
          [f \in {"a", "b"} |-> IF f = "a" THEN PlainField(ka, da) ELSE PlainField(kb, None)])

\* the state a sequence of class statements leaves (no class is built on
\* another here, so the _superclasses dicts are empty)
RECURSIVE DefineNext(_, _)
DefineNext(r, stmts) ==
    IF stmts = <<>> \/ r.err # None THEN r
    ELSE DefineNext(ClassStatement(r.classes, r.registry, Head(stmts), <<>>), Tail(stmts))

DefineAll(cls, reg, stmts) == DefineNext(Ok(cls, reg), stmts)

InitCodec ==
    /\ \E ka \in CodecKeys, kb \in CodecKeys, da \in {None, "v1"} :
         LET r0 == DefineAll(<<>>, EmptyDict, <<CodecAttrs(ka, kb, da)>>)
         IN  /\ r0.err = None
             /\ r0.classes[1].fields["a"].db_field # r0.classes[1].fields["b"].db_field
             /\ \E forder \in FieldOrders(<<>>, r0) :
                  LET r == WithFieldOrder(<<>>, r0, forder)
                  IN  /\ classes = r.classes
                      /\ registry = r.registry
                      /\ insts = <<BaseDocument_init(r.classes, 1, EmptyDict)>>
    /\ store = EmptyDict
    /\ last = NoOp
    /\ hist = <<>>

\* doc.f = v
CodecAssign ==
    /\ \E f \in {"a", "b"}, v \in CodecValues :
         insts' = <<SetAttr(classes, insts[1], f, v)>>
    /\ last' = [op |-> "setattr"]
    /\ UNCHANGED <<classes, registry, store, hist>>

\* doc.id = v
CodecAssignId ==
    /\ \E v \in CodecIds : insts' = <<SetAttr(classes, insts[1], "id", v)>>
    /\ last' = [op |-> "setattr"]
    /\ UNCHANGED <<classes, registry, store, hist>>

\* Doc._from_son(doc.to_mongo())
CodecRoundTrip ==
    /\ LET son == to_mongo(classes, insts[1])
       IN  IF "raised" \in DOMAIN son
           THEN last' = [op |-> "roundtrip", inst |-> insts[1], son |-> son,
                         result |-> NoDocument]
           ELSE \E korder \in Orders(DOMAIN son \ {"_cls", "_types"}) :
                  last' = [op |-> "roundtrip", inst |-> insts[1], son |-> son,
                           result |-> from_son(classes, insts[1].cls, son, korder)]
    /\ UNCHANGED <<classes, registry, store, insts, hist>>

NextCodec == CodecAssign \/ CodecAssignId \/ CodecRoundTrip

SpecCodec == InitCodec /\ [][NextCodec]_vars

(***************************************************************************)
(* C7: encode then decode is the identity on field values: the instance    *)
(* _from_son(I.to_mongo()) is of I's class and every field of it reads as  *)
(* I's does, also when a field's storage key differs from its name or is   *)
(* the name of another field.  Stated on the instances whose identifier is *)
(* None or an ObjectId (to_mongo turns a string identifier into the        *)
(* ObjectId it spells, which is a conversion the claim does not speak of). *)
(***************************************************************************)
C7_RoundTrip ==
    (last.op = "roundtrip" /\ "raised" \notin DOMAIN last.son
        /\ GetAttr(classes, last.inst, "id") \in ObjectIds \cup {None})
        => /\ last.result.cls = last.inst.cls
           /\ \A f \in DOMAIN classes[last.inst.cls].fields :
                 GetAttr(classes, last.result, f) = GetAttr(classes, last.inst, f)

(***************************************************************************)
(* Change tracking, delta and save of the Document class.                  *)
(***************************************************************************)
\* an empty list or dict as a field value
EMPTY == "EMPTY"

\* assignment to a field through the document: BaseField.__set__, and the
\* field is marked as changed
Document_setattr(cls, inst, fname, value) ==
    [SetAttr(cls, inst, fname, value) EXCEPT !.changed = @ \cup {fname}]

\* is the encoded record empty or absent at storage key k
Cleared(doc, k) ==
    \/ k \notin DOMAIN doc
    \/ k \notin {"_cls", "_types"} /\ doc[k] = EMPTY

\* the delta (set-map, unset-map) of an instance, both keyed by storage
\* key: the changed fields (every encoded field but _id when the instance
\* is fresh) read from the encoded record; a changed field that encodes to
\* nothing or to an empty container is unset
Delta(cls, inst) ==
    LET doc == to_mongo(cls, inst)
        paths == IF inst.fresh THEN DOMAIN doc \ {"_id"}
                 ELSE {cls[inst.cls].fields[f].db_field : f \in inst.changed}
    IN  [set |-> [k \in {x \in paths : ~Cleared(doc, x)} |-> doc[k]],
         unset |-> [k \in {x \in paths : Cleared(doc, x)} |-> 1]]

\* a dict without the keys ks
DelAll(d, ks) == [x \in (DOMAIN d) \ ks |-> d[x]]

\* the store's persist(collection, id, set_fields, unset_fields): an upsert
\* of the record `id` with $set and $unset
persist(st, collection, id, set_fields, unset_fields) ==
    LET old == IF id \in DOMAIN st[collection] THEN st[collection][id] ELSE [_id |-> id]
        new == DelAll(Update(old, set_fields), DOMAIN unset_fields)
    IN  [st EXCEPT ![collection] = Put(st[collection], id, new)]

\* the identifier a document is stored under
StoredId(cls, inst) ==
    ObjectIdField_to_mongo(GetAttr(cls, inst, cls[inst.cls].meta["id_field"]))

\* a save that writes the whole encoded record
SaveStore_whole(cls, st, inst, id) ==
    LET doc == to_mongo(cls, inst)
    IN  [st EXCEPT ![cls[inst.cls].meta["collection"]] = Put(@, id, Put(doc, "_id", id))]

\* Document.save: the delta is persisted under the instance's identifier
\* and the change tracking starts afresh
SaveStore(cls, st, inst, id) ==
    LET d == Delta(cls, inst)
    IN  persist(st, cls[inst.cls].meta["collection"], id, d.set, d.unset)

SaveInst(cls, inst, id) ==
    [SetAttr(cls, inst, cls[inst.cls].meta["id_field"], id) EXCEPT
        !.fresh = FALSE, !.changed = {}]

\* a document read from the store through class c (objects.get, reload)
LoadInst(cls, c, son, korder) ==
    [from_son(cls, c, son, korder) EXCEPT !.fresh = FALSE, !.changed = {}]

SomeOrder(S) == CHOOSE s \in Orders(S) : TRUE

(***************************************************************************)
(* SpecSave: the class Person(name, age) of the tests, one stored person   *)
(* at most, and two instances of it in memory (person and same_person).    *)
(* No two fields of Person share a storage key, so the iteration order of  *)
(* its _fields, and of the keys a record is loaded from, plays no part.    *)
(***************************************************************************)
\* the values assigned: name is cleared, set or emptied, age is cleared or
\* set to a value other than its default
SaveValues(f) == IF f = "name" THEN {None, "v1", EMPTY} ELSE {None, "v2"}

\* class Person(Document): name = StringField(); age = IntField(default=v1)
PersonAttrs ==
    Attrs("Person", 0, "doc", EmptyDict,
          [f \in {"name", "age"} |-> IF f = "age" THEN PlainField(None, "v1")
                                     ELSE PlainField(None, None)])

\* what happened to an instance: was it ever loaded or saved, the fields
\* assigned since it was created or loaded, the fields assigned since it
\* was created, loaded or saved, and has it been saved since its last
\* assignment
NoHist == [synced |-> FALSE, assigned |-> {}, since |-> {}, saved |-> FALSE]

\* the instances loaded from the stored document as it was last written by
\* an instance not loaded from it, and those of them that saved since
NoEpisode == [op |-> "episode", loaded |-> {}, written |-> {}]

InitSave ==
    /\ LET r0 == DefineAll(<<>>, EmptyDict, <<PersonAttrs>>)
           r == WithFieldOrder(<<>>, r0, SomeOrder(DOMAIN r0.classes[1].fields))
       IN  /\ classes = r.classes
           /\ registry = r.registry
           /\ insts = [i \in 1..2 |-> BaseDocument_init(r.classes, 1, EmptyDict)]
    /\ store = [person |-> EmptyDict]
    /\ last = NoEpisode
    /\ hist = [i \in 1..2 |-> NoHist]

\* person.f = v
SaveAssign(i) ==
    /\ \E f \in {"name", "age"} : \E v \in SaveValues(f) :
         /\ insts' = [insts EXCEPT ![i] = Document_setattr(classes, insts[i], f, v)]
         /\ hist' = [hist EXCEPT ![i].assigned = @ \cup {f}, ![i].since = @ \cup {f},
                                  ![i].saved = FALSE]
    /\ UNCHANGED <<classes, registry, store, last>>

\* same_person.id = person.id
SaveAssignId(i) ==
    /\ GetAttr(classes, insts[i], "id") = None
    /\ "oid1" \in DOMAIN store["person"]
    /\ insts' = [insts EXCEPT ![i] = Document_setattr(classes, insts[i], "id", "oid1")]
    /\ UNCHANGED <<classes, registry, store, hist, last>>

\* person.save(): a document without identifier is given a new one
Save(i) ==
    /\ LET id0 == StoredId(classes, insts[i])
           id == IF GetAttr(classes, insts[i], "id") = None THEN "oid1" ELSE id0
       IN  /\ GetAttr(classes, insts[i], "id") = None => "oid1" \notin DOMAIN store["person"]
           /\ store' = SaveStore(classes, store, insts[i], id)
           /\ insts' = [insts EXCEPT ![i] = SaveInst(classes, insts[i], id)]
    /\ hist' = [hist EXCEPT ![i].saved = TRUE, ![i].since = {}, ![i].synced = TRUE]
    /\ last' = IF i \in last.loaded THEN [last EXCEPT !.written = @ \cup {i}]
               ELSE NoEpisode
    /\ UNCHANGED <<classes, registry>>

\* person = Person.objects.get() / person.reload()
Load(i) ==
    /\ "oid1" \in DOMAIN store["person"]
    /\ LET son == store["person"]["oid1"]
       IN  insts' = [insts EXCEPT ![i] =
                        LoadInst(classes, 1, son, SomeOrder(DOMAIN son \ {"_cls", "_types"}))]
    /\ hist' = [hist EXCEPT ![i] = [synced |-> TRUE, assigned |-> {}, since |-> {},
                                     saved |-> FALSE]]
    /\ last' = IF last.written = {} THEN [last EXCEPT !.loaded = @ \cup {i}]
               ELSE [NoEpisode EXCEPT !.loaded = {i}]
    /\ UNCHANGED <<classes, registry, store>>

NextSave ==
    \E i \in 1..2 : SaveAssign(i) \/ SaveAssignId(i) \/ Save(i) \/ Load(i)

SpecSave == InitSave /\ [][NextSave]_vars

(***************************************************************************)
(* Claims on change tracking, delta and save (SpecSave).                   *)
(***************************************************************************)
PersonFields == {"name", "age"}
StoredPerson == store["person"]["oid1"]
KeyOf(f) == classes[1].fields[f].db_field

\* the stored document holds, for field f, what instance i encodes for it
\* (nothing when i encodes nothing or an empty container)
Carries(i, f) ==
    LET doc == to_mongo(classes, insts[i])
    IN  IF Cleared(doc, KeyOf(f)) THEN KeyOf(f) \notin DOMAIN StoredPerson
        ELSE KeyOf(f) \in DOMAIN StoredPerson /\ StoredPerson[KeyOf(f)] = doc[KeyOf(f)]

\* both instances were loaded from the same stored document, instance 1
\* assigned only f, instance 2 only g, and both saved afterwards
BothSaved(f, g) ==
    /\ last.loaded = {1, 2} /\ last.written = {1, 2}
    /\ hist[1].assigned = {f} /\ hist[2].assigned = {g}
    /\ hist[1].saved /\ hist[2].saved

\* C5: when two instances loaded from the same stored document each assign
\* a different field and both are saved, in either order, the stored
\* document carries both new values
C5_SaveOnlyChanged ==
    \A f \in PersonFields, g \in PersonFields :
        f # g /\ BothSaved(f, g) => Carries(1, f) /\ Carries(2, g)

\* the two saves happened, the two assigned values differ from each other and
\* from what the other instance still holds for that field
C5_Witness ==
    /\ BothSaved("name", "age")
    /\ insts[1].data["name"] = "v1" /\ insts[2].data["name"] = None
    /\ insts[2].data["age"] = "v2" /\ insts[1].data["age"] = "v1"

NoDelta == [set |-> EmptyDict, unset |-> EmptyDict]
SetDelta(k, v) == [set |-> [x \in {k} |-> v], unset |-> EmptyDict]
UnsetDelta(k) == [set |-> EmptyDict, unset |-> [x \in {k} |-> 1]]

\* instance i was saved or loaded and, since then, nothing / only f was assigned
Clean(i) == hist[i].synced /\ hist[i].since = {}
OnlyAssigned(i, f) == hist[i].synced /\ hist[i].since = {f}

CollectionOf(cls, c) == cls[c].meta["collection"]

\* document_cls.objects(field_name=D): the stored documents of class rk[1]
\* whose field rk[2] refers to ref
Referrers(cls, st, rk, ref) ==
    LET coll == st[CollectionOf(cls, rk[1])]
        key == cls[rk[1]].fields[rk[2]].db_field
    IN  {m \in DOMAIN coll :
           /\ key \in DOMAIN coll[m] /\ coll[m][key] = ref
           /\ "_types" \in DOMAIN coll[m] => cls[rk[1]].class_name \in Range(coll[m]["_types"])}

Result(st, log, err) == [st |-> st, log |-> log, err |-> err]
Entry(path, kind, what) == [ev |-> path, kind |-> kind, what |-> what]

\* the store's delete(collection, id)
store_delete(st, collection, id) == [st EXCEPT ![collection] = Del(@, id)]

\* NULLIFY: the field is unset on every matching document and persisted
RECURSIVE NullifyAll(_, _, _, _, _, _)
NullifyAll(cls, st, rk, ms, path, log) ==
    IF ms = <<>> THEN Result(st, log, None)
    ELSE LET coll == CollectionOf(cls, rk[1])
             key == cls[rk[1]].fields[rk[2]].db_field
         IN  NullifyAll(cls,
                        persist(st, coll, Head(ms), EmptyDict, [k \in {key} |-> 1]),
                        rk, Tail(ms), path,
                        Append(log, Entry(path, "persist", DBRef(coll, Head(ms)))))

\* the pre-flight of an event: every DENY rule is checked, in turn, and the
\* first one that has a matching document raises OperationError
RECURSIVE DenyChecks(_, _, _, _, _, _, _)
DenyChecks(cls, st, rules, rkeys, ref, path, log) ==
    IF rkeys = <<>> THEN Result(st, log, None)
    ELSE LET rk == Head(rkeys)
             log2 == Append(log, Entry(path, "check", rk[2]))
         IN  IF rules[rk] # DENY THEN DenyChecks(cls, st, rules, Tail(rkeys), ref, path, log)
             ELSE IF Referrers(cls, st, rk, ref) # {}
             THEN Result(st, Append(log2, Entry(path, "raise", rk[2])), "OperationError")
             ELSE DenyChecks(cls, st, rules, Tail(rkeys), ref, path, log2)

RECURSIVE DeleteEvent(_, _, _, _, _, _, _)

\* CASCADE: the deletion procedure is run on every matching document
RECURSIVE CascadeAll(_, _, _, _, _, _, _)
CascadeAll(cls, st, c, ms, path, log, ctx) ==
    IF ms = <<>> THEN Result(st, log, None)
    ELSE IF Head(ms) \notin DOMAIN st[CollectionOf(cls, c)]
    THEN CascadeAll(cls, st, c, Tail(ms), path, log, ctx)
    ELSE LET r == DeleteEvent(cls, st, c, Head(ms), path, log, ctx)
         IN  IF r.err # None THEN r
             ELSE CascadeAll(cls, r.st, c, Tail(ms), path, r.log, ctx)

\* the rules of an event applied in turn, after the pre-flight
RECURSIVE ApplyRules(_, _, _, _, _, _, _, _)
ApplyRules(cls, st, rules, rkeys, ref, path, log, ctx) ==
    IF rkeys = <<>> THEN Result(st, log, None)
    ELSE LET rk == Head(rkeys)
             found == Referrers(cls, st, rk, ref)
             ms == SelectSeq(ctx.ids, LAMBDA m : m \in found)
             r == CASE rules[rk] = CASCADE -> CascadeAll(cls, st, rk[1], ms, path, log, ctx)
                    [] rules[rk] = NULLIFY -> NullifyAll(cls, st, rk, ms, path, log)
                    [] OTHER               -> Result(st, log, None)
         IN  IF r.err # None THEN r
             ELSE ApplyRules(cls, r.st, rules, Tail(rkeys), ref, path, r.log, ctx)

\* an engine without pre-flight: each DENY rule is checked when its turn
\* comes, after the rules before it were applied
RECURSIVE ApplyRules_interleaved(_, _, _, _, _, _, _, _)
ApplyRules_interleaved(cls, st, rules, rkeys, ref, path, log, ctx) ==
    IF rkeys = <<>> THEN Result(st, log, None)
    ELSE LET rk == Head(rkeys)
             found == Referrers(cls, st, rk, ref)
             ms == SelectSeq(ctx.ids, LAMBDA m : m \in found)
             r == CASE rules[rk] = CASCADE -> CascadeAll(cls, st, rk[1], ms, path, log, ctx)
                    [] rules[rk] = NULLIFY -> NullifyAll(cls, st, rk, ms, path, log)
                    [] rules[rk] = DENY    -> DenyChecks(cls, st, rules, <<rk>>, ref, path, log)
                    [] OTHER               -> Result(st, log, None)
         IN  IF r.err # None THEN r
             ELSE ApplyRules_interleaved(cls, r.st, rules, Tail(rkeys), ref, path, r.log, ctx)

DeleteEvent_interleaved(cls, st, c, id, path0, log, ctx) ==
    LET coll == CollectionOf(cls, c)
        ref == DBRef(coll, id)
        path == Append(path0, ref)
        rules == cls[c].meta["delete_rules"]
        rkeys == SelectSeq(ctx.rules, LAMBDA rk : rk \in DOMAIN rules)
        r == ApplyRules_interleaved(cls, st, rules, rkeys, ref, path, log, ctx)
    IN  IF r.err # None THEN r
        ELSE Result(store_delete(r.st, coll, id),
                    Append(r.log, Entry(path, "delete", ref)), None)

\* the deletion procedure: pre-flight, then the rules, then the store's
\* delete of the document itself
DeleteEvent(cls, st, c, id, path0, log, ctx) ==
    LET coll == CollectionOf(cls, c)
        ref == DBRef(coll, id)
        path == Append(path0, ref)
        rules == cls[c].meta["delete_rules"]
        rkeys == SelectSeq(ctx.rules, LAMBDA rk : rk \in DOMAIN rules)
        pre == DenyChecks(cls, st, rules, rkeys, ref, path, log)
        r == IF pre.err # None THEN pre
             ELSE ApplyRules(cls, st, rules, rkeys, ref, path, pre.log, ctx)
    IN  IF r.err # None THEN r
        ELSE Result(store_delete(r.st, coll, id),
                    Append(r.log, Entry(path, "delete", ref)), None)

(***************************************************************************)
(* SpecDelete: the classes of the reverse_delete_rule tests,               *)
(*   Person;  BlogPost(author -> Person, reviewer -> Person);              *)
(*   Comment(post -> BlogPost),                                            *)
(* each reference field declared with a rule, documents of the three       *)
(* classes saved with their references set to stored documents, and        *)
(* documents deleted.  last is the outcome of the most recent delete and   *)
(* hist the store as it was before it.                                     *)
(***************************************************************************)
Rules == {DO_NOTHING, NULLIFY, CASCADE, DENY}

\* the rules a field is declared with: any for author, any but the default
\* for reviewer and post
DeclaredRules(f) == IF f = "author" THEN Rules ELSE Rules \ {DO_NOTHING}

BlogPostAttrs(r1, r2) ==
    Attrs("BlogPost", 0, "doc", EmptyDict,
          [f \in {"author", "reviewer"} |-> IF f = "author" THEN ReferenceField(1, r1)
                                            ELSE ReferenceField(1, r2)])

CommentAttrs(r3) ==
    Attrs("Comment", 0, "doc", EmptyDict, [f \in {"post"} |-> ReferenceField(2, r3)])

\* the identifiers the documents of class c are saved under
DocIds(c) == IF c = 3 THEN {"oid1"} ELSE ObjectIds

RefFields(cls, c) == {f \in DOMAIN cls[c].fields : cls[c].fields[f].ftype = "ReferenceField"}

InitDelete ==
    /\ \E r1 \in DeclaredRules("author"), r2 \in DeclaredRules("reviewer"),
          r3 \in DeclaredRules("post") :
         LET r == DefineAll(<<>>, EmptyDict,
                            <<PersonAttrs, BlogPostAttrs(r1, r2), CommentAttrs(r3)>>)
         IN  /\ r.err = None
             /\ classes = [c \in 1..Len(r.classes) |->
                             [r.classes[c] EXCEPT !.forder = SomeOrder(DOMAIN r.classes[c].fields)]]
             /\ registry = r.registry
    /\ store = [person |-> EmptyDict, blogpost |-> EmptyDict, comment |-> EmptyDict]
    /\ insts = <<>>
    /\ last = NoOp
    /\ hist = EmptyDict

\* doc = Class(field=referenced document, ...); doc.save()
InsertDoc ==
    \E c \in 1..3 :
      \E id \in DocIds(c) \ DOMAIN store[CollectionOf(classes, c)] :
        \E values \in [RefFields(classes, c) -> ObjectIds] :
          /\ \A f \in DOMAIN values :
               values[f] \in DOMAIN store[CollectionOf(classes, classes[c].fields[f].document_type)]
          /\ store' = SaveStore(classes, store, BaseDocument_init(classes, c, values), id)
          /\ last' = NoOp
          /\ hist' = EmptyDict
          /\ UNCHANGED <<classes, registry, insts>>

\* the orders in which the rule dicts may be iterated: only the order among
\* the rules of one class matters
RuleOrders ==
    {a \o b \o c : a \in Orders(DOMAIN classes[1].meta["delete_rules"]),
                   b \in Orders(DOMAIN classes[2].meta["delete_rules"]),
                   c \in Orders(DOMAIN classes[3].meta["delete_rules"])}

\* doc.delete() on a stored document
DeleteDoc ==
    \E c \in 1..3 :
      \E id \in DOMAIN store[CollectionOf(classes, c)] :
        \E ro \in RuleOrders, io \in Orders(ObjectIds) :
          LET r == DeleteEvent(classes, store, c, id, <<>>, <<>>, [rules |-> ro, ids |-> io])
          IN  /\ store' = r.st
              /\ last' = [op |-> "delete", cls |-> c, id |-> id, err |-> r.err, log |-> r.log]
              /\ hist' = store
              /\ UNCHANGED <<classes, registry, insts>>

NextDelete == InsertDoc \/ DeleteDoc

SpecDelete == InitDelete /\ [][NextDelete]_vars

(***************************************************************************)
(* Claims on the delete rules (SpecDelete).  D is the document of the last *)
(* delete; "before" is hist, "after" is store.                             *)
(***************************************************************************)
Deleted == last.op = "delete"
DRef == DBRef(CollectionOf(classes, last.cls), last.id)

\* the reference fields as declared: <<class, field name>>
DeclaredRefs == {rk \in (1..Len(classes)) \X {"author", "reviewer", "post"} :
                    rk[2] \in RefFields(classes, rk[1])}
RuleOf(rk) == classes[rk[1]].fields[rk[2]].reverse_delete_rule
RefKey(rk) == classes[rk[1]].fields[rk[2]].db_field

\* the stored documents of st, as <<class, id>>
Docs(st) == {d \in (1..Len(classes)) \X ObjectIds : d[2] \in DOMAIN st[CollectionOf(classes, d[1])]}
DocAt(st, d) == st[CollectionOf(classes, d[1])][d[2]]
RefOf(d) == DBRef(CollectionOf(classes, d[1]), d[2])

\* in st, document m refers to ref through a field declared with `rule`
RefersBy(st, m, ref, rule) ==
    \E rk \in DeclaredRefs :
        /\ rk[1] = m[1] /\ RuleOf(rk) = rule
        /\ m[2] \in Referrers(classes, st, rk, ref)

\* C1: a delete of D while a stored document references D through a field
\* declared with DENY fails with OperationError and leaves every collection
\* as it was
C1_DenyKeepsAll ==
    Deleted /\ (\E m \in Docs(hist) : RefersBy(hist, m, DRef, DENY))
        => last.err = "OperationError" /\ store = hist

\* D is referenced through a DENY field and, by another document or field,
\* through a field whose rule would change the store
C1_Witness ==
    /\ Deleted /\ last.err = "OperationError"
    /\ \E m \in Docs(hist) : RefersBy(hist, m, DRef, DENY)
    /\ \E m \in Docs(hist) : RefersBy(hist, m, DRef, CASCADE) \/ RefersBy(hist, m, DRef, NULLIFY)

IsPrefix(p, q) == Len(p) <= Len(q) /\ SubSeq(q, 1, Len(p)) = p
Destructive(e) == e.kind \in {"delete", "persist"}

\* C2: within one deletion event, no destructive store call of the event
\* (one made in it or in an event nested in it) comes before a check of a
\* DENY rule of that event or before the OperationError the check raises
C2_DenyChecksFirst ==
    Deleted =>
        \A i \in 1..Len(last.log), j \in 1..Len(last.log) :
            i < j /\ Destructive(last.log[i]) /\ last.log[j].kind \in {"check", "raise"}
                => ~IsPrefix(last.log[j].ev, last.log[i].ev)

\* an event checked a DENY rule that did not match and then made destructive
\* calls for its other rule
C2_Witness ==
    /\ Deleted /\ last.err = None /\ last.cls = 1
    /\ \E i \in 1..Len(last.log) : last.log[i].kind = "check" /\ Len(last.log[i].ev) = 1
    /\ \E i \in 1..Len(last.log) : last.log[i].kind = "persist" \/ Len(last.log[i].ev) = 2

\* the documents of `before` that depend on the documents of S through
\* reference fields declared with CASCADE, S included
RECURSIVE CascadeClosure(_, _)
CascadeClosure(before, S) ==
    LET more == {m \in Docs(before) : \E d \in S : RefersBy(before, m, RefOf(d), CASCADE)}
    IN  IF more \subseteq S THEN S ELSE CascadeClosure(before, S \cup more)

Dependents == CascadeClosure(hist, {<<last.cls, last.id>>})

\* C3: when delete(D) succeeds, no document that referenced D through
\* CASCADE fields, directly or through a chain of documents, remains stored
C3_CascadeRemovesAll ==
    Deleted /\ last.err = None => Dependents \cap Docs(store) = {}

\* a comment depended on a post that depended on the deleted person
C3_Witness ==
    /\ Deleted /\ last.err = None /\ last.cls = 1
    /\ \E m \in Dependents : m[1] = 3
    /\ \E m \in Dependents : m[1] = 2
    /\ Docs(store) # {}

\* the references to D held by any document of `before`
RefersTo(st, m, ref) == \E rk \in DeclaredRefs : rk[1] = m[1] /\ m[2] \in Referrers(classes, st, rk, ref)

\* the storage keys of m's NULLIFY fields that referred to one of S
NullifiedKeys(before, m, S) ==
    {RefKey(rk) : rk \in {x \in DeclaredRefs :
                            /\ x[1] = m[1] /\ RuleOf(x) = NULLIFY
                            /\ \E d \in S : m[2] \in Referrers(classes, before, x, RefOf(d))}}

\* C4 as stated: when D is deleted, a document M that references D through
\* a NULLIFY field is kept, that field is unset and M's other fields are
\* unchanged; every document that does not reference D is unchanged
C4_NullifyFrame ==
    Deleted /\ last.err = None =>
        \A m \in Docs(hist) \ {<<last.cls, last.id>>} :
            /\ RefersBy(hist, m, DRef, NULLIFY) =>
                  /\ m \in Docs(store)
                  /\ DocAt(store, m) = DelAll(DocAt(hist, m), NullifiedKeys(hist, m, {<<last.cls, last.id>>}))
            /\ ~RefersTo(hist, m, DRef) => m \in Docs(store) /\ DocAt(store, m) = DocAt(hist, m)

\* C4 amended: when delete(D) succeeds, every document that does not depend
\* on D through CASCADE fields is kept; its NULLIFY fields that referred to
\* D or to a document depending on D through CASCADE fields are unset, and
\* nothing else of it is changed
C4_NullifyFrameOutsideCascade ==
    Deleted /\ last.err = None =>
        \A m \in Docs(hist) \ Dependents :
            /\ m \in Docs(store)
            /\ DocAt(store, m) = DelAll(DocAt(hist, m), NullifiedKeys(hist, m, Dependents))

\* a post referred to the deleted person through its NULLIFY field and to
\* another person through its other field, and another post was untouched
C4_Witness ==
    /\ Deleted /\ last.err = None /\ last.cls = 1
    /\ \E m \in Docs(hist) \ Dependents :
          /\ RefersBy(hist, m, DRef, NULLIFY)
          /\ DocAt(store, m) # DocAt(hist, m)
    /\ \E m \in Docs(hist) \ Dependents : m[1] = 2 /\ ~RefersTo(hist, m, DRef)

(***************************************************************************)
(* C11: decoding a record through schema S whose _cls names a schema that  *)
(* is neither S nor a transitive subclass of S (an ancestor of S, an       *)
(* unrelated schema, or a name no schema bears) returns None; no error is  *)
(* raised.                                                                 *)
(***************************************************************************)
NamesForeignClass(cls, S, son) ==
    /\ "_cls" \in DOMAIN son
    /\ \A d \in DescendantsOrSelf(cls, S) : son["_cls"] # cls[d].class_name

C11_ForeignClassDecodesToNone ==
    (last.op = "from_son" /\ NamesForeignClass(classes, last.cls, last.son))
        => last.result = NoDocument

\* the record names an ancestor of S
C11_Witness ==
    /\ last.op = "from_son"
    /\ \E a \in 1..Len(classes) :
          /\ IsAncestor(classes, a, last.cls)
          /\ "_cls" \in DOMAIN last.son
          /\ last.son["_cls"] = classes[a].class_name
    /\ last.result = NoDocument

(***************************************************************************)
(* C12: every non-abstract schema whose allow_inheritance is false (set on *)
(* it or inherited through abstract bases) has no non-abstract ancestor    *)
(* and no subclass; a class statement that subclasses such a schema, or    *)
(* that sets allow_inheritance = false below a non-abstract ancestor,      *)
(* fails with ValueError, for top-level and embedded documents alike.      *)
(***************************************************************************)
IsAbstract(cls, c) == Get(cls[c].attrs.meta, "abstract", FALSE)

HasConcreteAncestor(cls, base) ==
    \E a \in 1..Len(cls) : (a = base \/ IsAncestor(cls, a, base)) /\ ~IsAbstract(cls, a)

C12_FinalSchemasStayFinal ==
    /\ \A c \in 1..Len(classes) :
          (~IsAbstract(classes, c) /\ ~DeclaredAllow(classes, c))
              => /\ ~HasConcreteAncestor(classes, classes[c].base)
                 /\ Subclasses(classes, c) = {}
    /\ last.op = "class" =>
          LET base == last.attrs.base
              abstract == Get(last.attrs.meta, "abstract", FALSE)
          IN  /\ (base # 0 /\ ~IsAbstract(classes, base) /\ ~DeclaredAllow(classes, base))
                    => last.err = "ValueError"
              /\ (~abstract /\ Get(last.attrs.meta, "allow_inheritance", TRUE) = FALSE
                    /\ HasConcreteAncestor(classes, base))
                    => last.err = "ValueError"

(***************************************************************************)
(* SpecKeys: class statements of top-level documents whose body declares   *)
(* a field (a primary key or a plain field, named username or email) or a  *)
(* meta dict (abstract, collection).  No instance is built here, so the    *)
(* iteration order of _fields is left undrawn.                             *)
(***************************************************************************)
MaxKeyed == 3

PrimaryKeyField == BaseField_init("BaseField", None, TRUE, None, 0, DO_NOTHING)

\* the class bodies: meta dict and field declarations
KeyedBodies ==
    {[meta |-> m, fields |-> EmptyDict] :
        m \in {EmptyDict, [abstract |-> TRUE], [collection |-> "coll"],
               [abstract |-> TRUE, collection |-> "coll"]}}
    \cup {[meta |-> EmptyDict, fields |-> f] :
            f \in {[username |-> PrimaryKeyField],
                   [username |-> PlainField(None, None)],
                   [email |-> PrimaryKeyField]}}
    \cup {[meta |-> [abstract |-> TRUE], fields |-> [username |-> PrimaryKeyField]]}

\* class SchemaNames[n](base): <body>.  A class statement that raises binds
\* no name, so no later statement names its class as a base; hist lists
\* the classes such statements left behind.
DefineKeyed ==
    /\ Len(classes) < MaxKeyed
    /\ \E base \in (0..Len(classes)) \ Range(hist), body \in KeyedBodies :
         LET name == SchemaNames[(Len(classes) % Len(SchemaNames)) + 1]
             attrs == Attrs(name, base, "doc", body.meta, body.fields)
         IN  \E skeys \in Orders(SuperclassIds(classes, base)) :
               LET r == ClassStatement(classes, registry, attrs, skeys)
               IN  /\ classes' = r.classes
                   /\ registry' = r.registry
                   /\ last' = [op |-> "class", attrs |-> attrs, err |-> r.err]
                   /\ hist' = IF r.err # None /\ Len(r.classes) > Len(classes)
                              THEN Append(hist, Len(r.classes)) ELSE hist
    /\ UNCHANGED <<store, insts>>

SpecKeys == InitSchema /\ [][DefineKeyed]_vars

\* the top-level classes whose class statement succeeded and that are not abstract
ConcreteSchemas == {c \in 1..Len(classes) : c \notin Range(hist) /\ ~IsAbstract(classes, c)}

IdKeyFields(c) == {f \in DOMAIN c.fields : c.fields[f].db_field = "_id"}

\* the identifier field a base hands down: its id_field, or the primary
\* key an abstract base declares
FixedIdField(cls, base) ==
    IF base = 0 THEN None
    ELSE IF Get(cls[base].meta, "id_field", None) # None THEN cls[base].meta["id_field"]
    ELSE IF PrimaryKeys(cls[base]) # {} THEN CHOOSE f \in PrimaryKeys(cls[base]) : TRUE
    ELSE None

(***************************************************************************)
(* C13: every successfully defined concrete top-level schema has exactly   *)
(* one identifier field, named by id_field, the only field stored under    *)
(* _id: the declared primary key (own or inherited) when there is one,     *)
(* else a synthesized field id; a class statement declaring a primary key  *)
(* under another name than the identifier field an ancestor fixed fails    *)
(* with ValueError.                                                        *)
(***************************************************************************)
C13_OneIdentifierField ==
    /\ \A c \in ConcreteSchemas :
          LET idf == classes[c].meta["id_field"]
              pks == PrimaryKeys(classes[c])
          IN  /\ idf \in DOMAIN classes[c].fields
              /\ IdKeyFields(classes[c]) = {idf}
              /\ IF pks # {} THEN pks = {idf} ELSE idf = "id"
    /\ last.op = "class" =>
          \A f \in PrimaryKeys(last.attrs) :
              (FixedIdField(classes, last.attrs.base) \notin {None, f})
                  => last.err = "ValueError"

(***************************************************************************)
(* C14 (as stated): a class statement marked abstract whose base is not    *)
(* abstract fails with ValueError, so every ancestor of an abstract schema *)
(* is abstract.                                                            *)
(***************************************************************************)
AbstractBelowConcrete(cls, attrs) ==
    /\ Get(attrs.meta, "abstract", FALSE)
    /\ attrs.base # 0
    /\ ~IsAbstract(cls, attrs.base)

C14_AbstractNeedsAbstractBases ==
    /\ (last.op = "class" /\ AbstractBelowConcrete(classes, last.attrs))
          => last.err = "ValueError"
    /\ \A c \in 1..Len(classes) : IsAbstract(classes, c) =>
          \A a \in 1..Len(classes) : IsAncestor(classes, a, c) => IsAbstract(classes, a)

(***************************************************************************)
(* C14 (amended): a class statement of a top-level document marked         *)
(* abstract whose base is not abstract fails with ValueError, so every     *)
(* ancestor of an abstract top-level schema is abstract; an embedded       *)
(* document is not checked.                                                *)
(***************************************************************************)
C14_AbstractTopLevelNeedsAbstractBases ==
    /\ (last.op = "class" /\ last.attrs.kind = "doc"
            /\ AbstractBelowConcrete(classes, last.attrs))
          => last.err = "ValueError"
    /\ \A c \in 1..Len(classes) : (classes[c].kind = "doc" /\ IsAbstract(classes, c)) =>
          \A a \in 1..Len(classes) : IsAncestor(classes, a, c) => IsAbstract(classes, a)

\* an abstract class statement below a concrete class that itself stands
\* below an abstract one is refused
C14_Witness ==
    /\ last.op = "class"
    /\ last.attrs.kind = "doc"
    /\ AbstractBelowConcrete(classes, last.attrs)
    /\ classes[last.attrs.base].base # 0
    /\ last.err = "ValueError"

(***************************************************************************)
(* C15: a concrete schema without non-abstract ancestor uses its declared  *)
(* collection or, declaring none, its lower-cased class name; a schema     *)
(* with a non-abstract ancestor has that ancestor's collection, also when  *)
(* it declares one of its own; an abstract schema has no collection.       *)
(***************************************************************************)
C15_CollectionOfRootClass ==
    \A c \in (1..Len(classes)) \ Range(hist) :
        LET k == classes[c]
        IN  IF IsAbstract(classes, c) THEN "collection" \notin DOMAIN k.meta
            ELSE IF HasConcreteAncestor(classes, k.base)
            THEN \A a \in 1..Len(classes) :
                    (IsAncestor(classes, a, c) /\ ~IsAbstract(classes, a))
                        => k.meta["collection"] = classes[a].meta["collection"]
            ELSE k.meta["collection"] = Get(k.attrs.meta, "collection", Lower(k.name))

(***************************************************************************)
(* SpecIndex: the unique indexes of a top-level class.  A dotted name or   *)
(* path ('date.year') is the sequence of its components; a namespace       *)
(* ('sub.') is the sequence of the components before the final dot.  An    *)
(* index is a sequence of <<path, direction>> pairs.                       *)
(***************************************************************************)
\* BaseField.__init__ with unique / unique_with (a list of dotted names):
\* self.unique = bool(unique or unique_with)
IndexedField(ftype, db_field, unique, unique_with, document_type) ==
    Update(BaseField_init(ftype, db_field, FALSE, None, document_type, DO_NOTHING),
           [unique |-> unique \/ unique_with # <<>>, unique_with |-> unique_with])

IsUnique(field) == "unique" \in DOMAIN field /\ field.unique

\* QuerySet._lookup_field(document, parts): the field objects that the
\* components of a dotted name lead through
RECURSIVE lookup_field(_, _, _)
lookup_field(cls, c, parts) ==
    LET field == cls[c].fields[Head(parts)]
    IN  IF Len(parts) = 1 THEN <<field>>
        ELSE <<field>> \o lookup_field(cls, field.document_type, Tail(parts))

\* the components of a unique_with name left as they were written
name_parts_unresolved(cls, c, other_name) == other_name

\* name_parts = [part.db_field for part in parts]
name_parts(cls, c, other_name) ==
    LET parts == lookup_field(cls, c, other_name)
    IN  [j \in 1..Len(parts) |-> parts[j].db_field]

\* TopLevelDocumentMetaclass._unique_with_indexes(new_class, namespace),
\* over the fields in the order `todo` of new_class._fields.items()
RECURSIVE unique_with_indexes(_, _, _, _)
unique_with_indexes(cls, c, namespace, todo) ==
    IF todo = <<>> THEN <<>>
    ELSE LET field_name == Head(todo)
             field == cls[c].fields[field_name]
             unique_with == [i \in 1..Len(field.unique_with) |->
                               name_parts(cls, c, field.unique_with[i])]
             unique_fields == <<<<field.db_field>>>> \o unique_with
             index == [i \in 1..Len(unique_fields) |->
                          <<namespace \o unique_fields[i], "ASCENDING">>]
         IN  (IF IsUnique(field) THEN <<index>> ELSE <<>>)
             \o (IF field.ftype = "EmbeddedDocumentField"
                 THEN unique_with_indexes(cls, field.document_type,
                          <<field_name>>, cls[field.document_type].forder)
                 ELSE <<>>)
             \o unique_with_indexes(cls, c, namespace, Tail(todo))

\* the fields the index walk marks required (field.required = True and
\* parts[-1].required = True), as <<class, field name>> pairs
RECURSIVE RequiredByIndexes(_, _, _)
RequiredByIndexes(cls, c, todo) ==
    IF todo = <<>> THEN {}
    ELSE LET field == cls[c].fields[Head(todo)]
             RECURSIVE owner(_, _)
             owner(k, parts) ==
                 IF Len(parts) = 1 THEN <<k, parts[1]>>
                 ELSE owner(cls[k].fields[parts[1]].document_type, Tail(parts))
         IN  (IF IsUnique(field)
              THEN {<<c, Head(todo)>>}
                     \cup {owner(c, field.unique_with[i]) : i \in 1..Len(field.unique_with)}
              ELSE {})
             \cup (IF field.ftype = "EmbeddedDocumentField"
                   THEN RequiredByIndexes(cls, field.document_type,
                                          cls[field.document_type].forder)
                   ELSE {})
             \cup RequiredByIndexes(cls, c, Tail(todo))

MaxIndexed == 3

IndexValues == {"v1", "v2"}

\* the dotted name that leads from class d to the field year
RECURSIVE YearPath(_, _)
YearPath(cls, d) ==
    IF "year" \in DOMAIN cls[d].fields THEN <<"year">>
    ELSE <<"sub">> \o YearPath(cls, cls[d].fields["sub"].document_type)

\* the class bodies (tests: SubDocument / Date, BlogPost):
\*   year = IntField(db_field='yr'); slug = StringField(unique=..., unique_with=...)
\*   title = StringField(unique_with=...); sub = EmbeddedDocumentField(d, db_field=...)
IndexedBodies(cls) ==
    {[year |-> IndexedField("BaseField", "yr", FALSE, <<>>, 0),
      slug |-> IndexedField("BaseField", None, u[1], u[2], 0)] :
        u \in {<<FALSE, <<>> >>, <<TRUE, <<>> >>, <<FALSE, << <<"year">> >> >>}}
    \cup
    UNION {{[title |-> IndexedField("BaseField", None, FALSE, uw, 0),
             sub |-> IndexedField("EmbeddedDocumentField", sk, FALSE, <<>>, d)] :
               sk \in {None, "s"},
               uw \in {<<>>, << <<"sub">> \o YearPath(cls, d) >>}} :
           d \in {e \in 1..Len(cls) : cls[e].kind = "embedded"}}

InitIndex ==
    /\ classes = <<>>
    /\ registry = EmptyDict
    /\ store = EmptyDict
    /\ insts = <<>>
    /\ last = NoOp
    /\ hist = <<>>

\* class SchemaNames[n](Document or EmbeddedDocument): <body>.  The order
\* in which _fields iterates is a function of its keys; one order stands
\* for it.  The indexes are derived before the identifier field is
\* synthesized (base.py 527, 542-545).  The classes are defined before the
\* first document is saved.
DefineIndexed ==
    /\ Defining
    /\ Len(classes) < MaxIndexed
    /\ \E kind \in {"doc", "embedded"}, fields \in IndexedBodies(classes) :
         LET name == SchemaNames[(Len(classes) % Len(SchemaNames)) + 1]
             attrs == Attrs(name, 0, kind, EmptyDict, fields)
             forder == CHOOSE o \in Orders(DOMAIN fields) : TRUE
             new_id == Len(classes) + 1
         IN  \E r \in {WithFieldOrder(classes,
                                      ClassStatement(classes, registry, attrs, <<>>),
                                      IF kind = "doc" THEN Append(forder, "id") ELSE forder)} :
             \E unique_indexes \in {unique_with_indexes(r.classes, new_id, <<>>, forder)},
                required \in {RequiredByIndexes(r.classes, new_id, forder)} :
               /\ classes' =
                     IF kind = "doc"
                     THEN [k \in 1..new_id |->
                             [r.classes[k] EXCEPT
                                !.fields = [f \in DOMAIN @ |->
                                              IF <<k, f>> \in required
                                              THEN [@[f] EXCEPT !.required = TRUE]
                                              ELSE @[f]],
                                !.meta = IF k = new_id
                                         THEN Put(@, "unique_indexes", unique_indexes)
                                         ELSE @]]
                     ELSE r.classes
               /\ registry' = r.registry
               /\ last' = [op |-> "class", attrs |-> attrs, err |-> r.err]
    /\ UNCHANGED <<store, insts, hist>>

\* the classes TopLevelDocumentMetaclass built
TopLevelSchemas == {c \in 1..Len(classes) : classes[c].kind = "doc"}

MaxPosts == 2

\* the documents of class c the saves draw from: every plain field holds
\* a value of vals, every embedded field an embedded document
RECURSIVE Posts(_, _, _)
Posts(cls, c, vals) ==
    IF "sub" \in DOMAIN cls[c].fields
    THEN {[title |-> t, sub |-> s] :
            t \in vals, s \in Posts(cls, cls[c].fields["sub"].document_type, vals)}
    ELSE {[year |-> y, slug |-> s] : y \in vals, s \in vals}

\* the record of a document: every value under its field's storage key,
\* an embedded document as a nested record (the identifier, which the
\* store generates, and _cls / _types are left out: no unique index of the
\* model names them)
RECURSIVE SonOf(_, _, _)
SonOf(cls, c, doc) ==
    LET field(k) == CHOOSE f \in DOMAIN doc : cls[c].fields[f].db_field = k
    IN  [k \in {cls[c].fields[f].db_field : f \in DOMAIN doc} |->
            IF cls[c].fields[field(k)].ftype = "EmbeddedDocumentField"
            THEN SonOf(cls, cls[c].fields[field(k)].document_type, doc[field(k)])
            ELSE doc[field(k)]]

\* the value a record holds at a dotted path; a record that lacks the path
\* is indexed as holding None there
RECURSIVE ValueAt(_, _)
ValueAt(son, path) ==
    IF Head(path) \notin DOMAIN son THEN None
    ELSE IF Len(path) = 1 THEN son[Head(path)]
    ELSE ValueAt(son[Head(path)], Tail(path))

\* a store that enforces no unique index
DuplicateKey_unenforced(indexes, stored, son) == FALSE

\* the store's unique indexes: the new record agrees with a stored one on
\* every path of one index
DuplicateKey(indexes, stored, son) ==
    \E i \in DOMAIN indexes, j \in DOMAIN stored :
        \A p \in DOMAIN indexes[i] :
            ValueAt(son, indexes[i][p][1]) = ValueAt(stored[j], indexes[i][p][1])

\* post.save() of a new document of the top-level class defined last: the
\* record is inserted unless the store reports a duplicate key
\* (OperationError).  The first document saved holds the first value in
\* every field (the values of a field are interchangeable).
SaveIndexed ==
    /\ \E c \in TopLevelSchemas \cap {Len(classes)} :
         LET collection == classes[c].meta["collection"]
         IN  \E stored \in {Get(store, collection, <<>>)} :
             \E post \in Posts(classes, c, IF stored = <<>> THEN {"v1"} ELSE IndexValues) :
             \E son \in {SonOf(classes, c, post)} :
               /\ Len(stored) < MaxPosts
               /\ IF DuplicateKey(classes[c].meta["unique_indexes"], stored, son)
                  THEN /\ store' = store
                       /\ last' = [op |-> "save", cls |-> c, son |-> son,
                                   before |-> stored, err |-> "OperationError"]
                  ELSE /\ store' = Put(store, collection, Append(stored, son))
                       /\ last' = [op |-> "save", cls |-> c, son |-> son,
                                   before |-> stored, err |-> None]
    /\ UNCHANGED <<classes, registry, insts, hist>>

NextIndex == DefineIndexed \/ SaveIndexed

SpecIndex == InitIndex /\ [][NextIndex]_vars

\* the storage path a dotted field name denotes, component by component
RECURSIVE StoragePath(_, _, _)
StoragePath(cls, c, parts) ==
    IF parts = <<>> THEN <<>>
    ELSE <<cls[c].fields[Head(parts)].db_field>>
            \o StoragePath(cls, cls[c].fields[Head(parts)].document_type, Tail(parts))

\* the ascending index of the unique field f of class d, its paths below prefix
IndexOf(cls, d, f, prefix) ==
    LET field == cls[d].fields[f]
    IN  <<<<prefix \o <<field.db_field>>, "ASCENDING">>>>
           \o [i \in 1..Len(field.unique_with) |->
                  <<prefix \o StoragePath(cls, d, field.unique_with[i]), "ASCENDING">>]

UniqueFields(cls, d) == {f \in DOMAIN cls[d].fields : IsUnique(cls[d].fields[f])}

(***************************************************************************)
(* C16: for every field of a top-level schema with unique = true or a      *)
(* unique_with, the derived unique indexes contain one ascending compound  *)
(* index whose paths are the field's storage key followed by the storage   *)
(* path of each unique_with entry, each dotted name translated component   *)
(* by component into storage keys.                                         *)
(***************************************************************************)
C16_UniqueIndexPaths ==
    \A c \in TopLevelSchemas : \A f \in UniqueFields(classes, c) :
        LET idx == classes[c].meta["unique_indexes"]
        IN  Cardinality({i \in DOMAIN idx : idx[i] = IndexOf(classes, c, f, <<>>)}) = 1

\* title unique_with 'sub.year' (or deeper), with year stored as 'yr' and
\* the embedded field stored as 's'
C16_Witness ==
    \E c \in TopLevelSchemas :
        /\ "title" \in UniqueFields(classes, c)
        /\ \E i \in DOMAIN classes[c].meta["unique_indexes"] :
              LET index == classes[c].meta["unique_indexes"][i]
              IN  /\ Len(index) = 2
                  /\ index[1] = << <<"title">>, "ASCENDING" >>
                  /\ index[2][1][1] = "s"
                  /\ index[2][1][Len(index[2][1])] = "yr"

(***************************************************************************)
(* C17: a unique field declared inside an embedded sub-schema, at any      *)
(* embedding depth, yields an index of the owning top-level schema whose   *)
(* paths all carry the full dotted storage path of the enclosing embedded  *)
(* fields as prefix.                                                       *)
(***************************************************************************)
RECURSIVE NestedIndexes(_, _, _)
NestedIndexes(cls, d, prefix) ==
    {IndexOf(cls, d, f, prefix) : f \in UniqueFields(cls, d)}
      \cup UNION {NestedIndexes(cls, cls[d].fields[g].document_type,
                                prefix \o <<cls[d].fields[g].db_field>>) :
                    g \in {h \in DOMAIN cls[d].fields :
                             cls[d].fields[h].ftype = "EmbeddedDocumentField"}}

C17_EmbeddedIndexFullPath ==
    \A c \in TopLevelSchemas :
        (NestedIndexes(classes, c, <<>>)
            \ {IndexOf(classes, c, f, <<>>) : f \in UniqueFields(classes, c)})
          \subseteq Range(classes[c].meta["unique_indexes"])

\* two records agree on every path of the index
Agree(index, a, b) ==
    \A p \in DOMAIN index : ValueAt(a, index[p][1]) = ValueAt(b, index[p][1])

MaxRefs == 3

MaxReads == 2

\* pymongo.dbref.DBRef(collection, id), as the resolver reads it
Ref(collection, id) == [collection |-> collection, id |-> id]

\* isinstance(v, pymongo.dbref.DBRef)
IsDBRef(v) == DOMAIN v = {"collection", "id"}

\* get_document(name), name a dotted _cls value: the registry is keyed by
\* the class statement's name, so only an undotted name can be found;
\* 0 stands for NotRegistered
get_document(reg, name) ==
    IF Len(name) = 1 /\ name[1] \in DOMAIN reg THEN reg[name[1]] ELSE 0

\* a resolver that looks every identifier up on its own
find_each(collection, ids) ==
    LET order == CHOOSE o \in Orders(ids) : TRUE
    IN  [i \in 1..Len(order) |-> [collection |-> collection, ids |-> {order[i]}]]

\* db[collection].find({'_id': {'$in': id_map.keys()}}): the lookups issued
find(collection, ids) == <<[collection |-> collection, ids |-> ids]>>

\* a resolver that leaves out the entries it could not resolve
sorted_values_resolved(dbref) ==
    LET keep == {k \in DOMAIN dbref : ~IsDBRef(dbref[k])}
        RECURSIVE pick(_, _)
        pick(k, out) == IF k > Len(dbref) THEN out
                        ELSE pick(k + 1, IF k \in keep THEN Append(out, dbref[k]) ELSE out)
    IN  pick(1, <<>>)

\* [v for k, v in sorted(dbref.items(), key=itemgetter(0))]
sorted_values(dbref) == [k \in 1..Len(dbref) |-> dbref[k]]

\* the loop of ComplexBaseField.__get__ over collections.items(), in the
\* order todo; acc is [dbref, lookups, err]
RECURSIVE Dereference(_, _, _, _, _, _)
Dereference(cls, reg, st, value_list, todo, acc) ==
    IF todo = <<>> \/ acc.err # None THEN acc
    ELSE LET collection == Head(todo)
             keys == {k \in DOMAIN value_list :
                        IsDBRef(value_list[k]) /\ value_list[k].collection = collection}
             ids == {value_list[k].id : k \in keys}
             \* id_map[v.id] = (k, None): the last entry with that id wins
             id_map == [i \in ids |->
                          CHOOSE k \in keys :
                             /\ value_list[k].id = i
                             /\ \A j \in keys : value_list[j].id = i => j <= k]
             references == {i \in ids : i \in DOMAIN st[collection]}
             ref(i) == st[collection][i]
             err == IF \E i \in references : "_cls" \notin DOMAIN ref(i) THEN "KeyError"
                    ELSE IF \E i \in references : get_document(reg, ref(i)["_cls"]) = 0
                    THEN "NotRegistered"
                    ELSE None
             decoded(i) == from_son(cls, get_document(reg, ref(i)["_cls"]), ref(i),
                                    SomeOrder(DOMAIN ref(i) \ {"_cls", "_types"}))
             dbref == [k \in DOMAIN acc.dbref |->
                         IF err = None /\ \E i \in references : id_map[i] = k
                         THEN decoded(value_list[k].id)
                         ELSE acc.dbref[k]]
         IN  Dereference(cls, reg, st, value_list, Tail(todo),
                         [dbref |-> dbref,
                          lookups |-> acc.lookups \o find(collection, ids),
                          err |-> err])

\* a read that resolves the entries and does not keep the result
ComplexBaseField_get_uncached(cls, reg, st, inst, name, corder) ==
    LET value_list == inst.data[name]
        r == Dereference(cls, reg, st, value_list, corder,
                         [dbref |-> value_list, lookups |-> <<>>, err |-> None])
    IN  [inst |-> inst, lookups |-> r.lookups, err |-> r.err,
         value |-> IF r.err # None THEN <<>> ELSE sorted_values(r.dbref)]

\* ComplexBaseField.__get__(instance, owner) for a list value: the entries
\* of the model are no inline documents (base.py 168-170 leaves them alone);
\* corder is the order of collections.items().  Yields the instance, the
\* lookups issued and the value returned (or the error raised).
ComplexBaseField_get(cls, reg, st, inst, name, corder) ==
    LET value_list == inst.data[name]
        r == Dereference(cls, reg, st, value_list, corder,
                         [dbref |-> value_list, lookups |-> <<>>, err |-> None])
    IN  IF value_list = <<>>
        THEN [inst |-> inst, lookups |-> <<>>, err |-> None, value |-> value_list]
        ELSE IF r.err # None
        THEN [inst |-> inst, lookups |-> r.lookups, err |-> r.err, value |-> <<>>]
        ELSE [inst |-> [inst EXCEPT !.data = Put(@, name, sorted_values(r.dbref))],
              lookups |-> r.lookups, err |-> None, value |-> sorted_values(r.dbref)]

\* class Doc(Document): list_field = ListField()
DocAttrs ==
    Attrs("Doc", 0, "doc", EmptyDict,
          [f \in {"list_field"} |->
              BaseField_init("ComplexBaseField", None, FALSE, None, 0, DO_NOTHING)])

\* the entries a stored list holds
RawEntries ==
    {Ref("person", id) : id \in ObjectIds} \cup {Ref("blogpost", "oid1"), [plain |-> "v1"]}

\* Person, BlogPost and Doc defined; any of the referenced documents
\* stored; one Doc loaded whose list holds up to MaxRefs entries
InitDeref ==
    /\ \E r \in {DefineAll(<<>>, EmptyDict,
                           <<PersonAttrs, BlogPostAttrs(DO_NOTHING, DO_NOTHING), DocAttrs>>)} :
       \E cls \in {[c \in 1..Len(r.classes) |->
                      [r.classes[c] EXCEPT !.forder = SomeOrder(DOMAIN r.classes[c].fields)]]} :
       \E people \in SUBSET ObjectIds, posts \in SUBSET {"oid1"}, n \in 0..MaxRefs :
       \E value_list \in [1..n -> RawEntries] :
         /\ classes = cls
         /\ registry = r.registry
         /\ store = [person |-> [i \in people |-> to_mongo(cls, NewInstance(cls, 1, i))],
                     blogpost |-> [i \in posts |-> to_mongo(cls, NewInstance(cls, 2, i))],
                     doc |-> EmptyDict]
         /\ insts = <<[BaseDocument_init(cls, 3, EmptyDict) EXCEPT
                         !.data = Put(@, "list_field", value_list), !.fresh = FALSE]>>
    /\ last = [op |-> "none", n |-> 0]
    /\ hist = <<>>

\* doc.list_field
ReadContainer ==
    /\ last.n < MaxReads
    /\ \E corder \in Orders({insts[1].data["list_field"][k].collection :
                               k \in {j \in DOMAIN insts[1].data["list_field"] :
                                        IsDBRef(insts[1].data["list_field"][j])}}) :
       \E r \in {ComplexBaseField_get(classes, registry, store, insts[1], "list_field", corder)} :
         /\ insts' = <<r.inst>>
         /\ hist' = hist \o r.lookups
         /\ last' = [op |-> "get", n |-> last.n + 1, before |-> insts[1].data["list_field"],
                     lookups |-> r.lookups, err |-> r.err, value |-> r.value,
                     prev |-> IF last.op = "get" THEN last.value ELSE <<>>]
    /\ UNCHANGED <<classes, registry, store>>

SpecDeref == InitDeref /\ [][ReadContainer]_vars

FirstRead == last.op = "get" /\ last.n = 1

\* the collections the container references, and the identifiers it
\* references in one of them
RefsOf(value_list) == {value_list[k] : k \in {j \in DOMAIN value_list : IsDBRef(value_list[j])}}

IdsIn(value_list, collection) ==
    {v.id : v \in {w \in RefsOf(value_list) : w.collection = collection}}

(***************************************************************************)
(* C19: the first read of a container field holding references issues      *)
(* exactly one lookup per distinct target collection among its entries,    *)
(* and that lookup covers every identifier the container references in     *)
(* that collection, however many references there are.                     *)
(***************************************************************************)
C19_OneLookupPerCollection ==
    FirstRead =>
        LET colls == {v.collection : v \in RefsOf(last.before)}
        IN  /\ Len(last.lookups) = Cardinality(colls)
            /\ \A c \in colls :
                  \E i \in DOMAIN last.lookups :
                      last.lookups[i] = [collection |-> c, ids |-> IdsIn(last.before, c)]

\* MaxRefs references into one collection, to more than one document, and
\* one lookup
C19_Witness ==
    /\ FirstRead
    /\ Len(last.before) = MaxRefs
    /\ \A k \in DOMAIN last.before : IsDBRef(last.before[k])
    /\ Cardinality(IdsIn(last.before, "person")) = 2
    /\ Len(last.lookups) = 1

\* the entries whose reference finds no record in its collection
Unresolvable(value_list) ==
    {k \in DOMAIN value_list :
        /\ IsDBRef(value_list[k])
        /\ value_list[k].id \notin DOMAIN store[value_list[k].collection]}

(***************************************************************************)
(* C20 (as stated): when a referenced identifier has no matching record,   *)
(* no error is raised and the entry is dropped: the value returned holds   *)
(* no entry for it, neither a document nor the raw reference.              *)
(***************************************************************************)
C20_UnresolvableDropped ==
    (FirstRead /\ Unresolvable(last.before) # {})
        => /\ last.err = None
           /\ Len(last.value) = Len(last.before) - Cardinality(Unresolvable(last.before))
           /\ \A k \in DOMAIN last.value : ~IsDBRef(last.value[k])

(***************************************************************************)
(* C20 (amended): when a referenced identifier has no matching record, no  *)
(* error is raised and the entry is kept: the value returned holds the raw *)
(* reference at the position it had, and no document in its place.         *)
(***************************************************************************)
C20_UnresolvableKept ==
    (FirstRead /\ Unresolvable(last.before) # {})
        => /\ last.err = None
           /\ Len(last.value) = Len(last.before)
           /\ \A k \in Unresolvable(last.before) : last.value[k] = last.before[k]

\* one reference resolved to a document, one left as it was
C20_Witness ==
    /\ FirstRead
    /\ last.err = None
    /\ Unresolvable(last.before) # {}
    /\ \E k \in DOMAIN last.before : IsDBRef(last.before[k]) /\ ~IsDBRef(last.value[k])

(***************************************************************************)
(* SpecEncode: a document Doc with an untyped list field (ListField())     *)
(* whose entries are documents of a target class, saved or not, or plain   *)
(* values, is encoded and saved.  The target class is declared in each of  *)
(* the ways a class body can state its meta.                               *)
(***************************************************************************)
MaxEntries == 2

\* a class body with the line `meta = {}`
WithEmptyMeta(attrs) ==
    [name |-> attrs.name, base |-> attrs.base, kind |-> attrs.kind, meta |-> attrs.meta,
     fields |-> attrs.fields, empty_meta |-> TRUE]

\* 'meta' in attrs: does the class body hold a meta line
DeclaresMeta(attrs) == attrs.meta # EmptyDict \/ "empty_meta" \in DOMAIN attrs

\* getattr(v, 'meta', getattr(v, '_meta', {})) for a document v of class c:
\* the class attribute meta is the dict of the nearest class body that has a
\* meta line (DocumentMetaclass.__new__ adds allow_inheritance to that very
\* dict when it is handed no _meta, as for an abstract class), and without
\* any such body the computed _meta
RECURSIVE meta_attr(_, _, _)
meta_attr(cls, c, d) ==
    IF DeclaresMeta(cls[d].attrs)
    THEN IF Get(cls[d].attrs.meta, "abstract", FALSE)
            /\ "allow_inheritance" \notin DOMAIN cls[d].attrs.meta
         THEN Put(cls[d].attrs.meta, "allow_inheritance", TRUE)
         ELSE cls[d].attrs.meta
    ELSE IF cls[d].base # 0 THEN meta_attr(cls, c, cls[d].base)
    ELSE cls[c].meta

\* isinstance(v, Document): the entries of the model are instances of
\* top-level classes or plain values [plain |-> x]
IsDocument(v) == "cls" \in DOMAIN v

\* v.pk
pk(cls, v) == GetAttr(cls, v, cls[v.cls].meta["id_field"])

\* GenericReferenceField().to_mongo(v) for a saved document
GenericReferenceField_to_mongo(cls, v) ==
    [_cls |-> cls[v.cls].class_name,
     _ref |-> Ref(cls[v.cls].meta["collection"], pk(cls, v))]

\* an encoder that writes every saved document as a direct reference
encode_entry_direct(cls, v) ==
    IF IsDocument(v)
    THEN IF pk(cls, v) = None THEN [raised |-> "ValidationError"]
         ELSE Ref(cls[v.cls].meta["collection"], pk(cls, v))
    ELSE v

\* the body of the loop of ComplexBaseField.to_mongo over value.items(),
\* self.field being None
encode_entry(cls, v) ==
    IF IsDocument(v)
    THEN IF pk(cls, v) = None THEN [raised |-> "ValidationError"]
         ELSE LET meta == meta_attr(cls, v.cls, v.cls)
              IN  IF meta # EmptyDict /\ "allow_inheritance" \notin DOMAIN meta
                  THEN [raised |-> "KeyError"]
                  ELSE IF meta # EmptyDict /\ ~meta["allow_inheritance"]
                  THEN GenericReferenceField_to_mongo(cls, v)
                  ELSE Ref(cls[v.cls].meta["collection"], pk(cls, v))
    ELSE v

\* ComplexBaseField.to_mongo(value) for a list: the entries are encoded in
\* the order of their indexes and the first error ends the loop; yields the
\* error raised (or None) and the encoded list
ComplexBaseField_to_mongo(cls, value) ==
    LET enc == [k \in DOMAIN value |-> encode_entry(cls, value[k])]
        bad == {k \in DOMAIN enc : "raised" \in DOMAIN enc[k]}
    IN  IF bad = {} THEN [raised |-> None, value |-> enc]
        ELSE [raised |-> enc[CHOOSE k \in bad : \A j \in bad : k <= j].raised, value |-> <<>>]

\* BaseDocument.to_mongo of a document whose field `name` is a
\* ComplexBaseField holding a list
to_mongo_complex(cls, inst, name) ==
    LET rest == to_mongo(cls, [inst EXCEPT !.data = Del(@, name)])
        enc == ComplexBaseField_to_mongo(cls, inst.data[name])
    IN  IF "raised" \in DOMAIN rest THEN rest
        ELSE IF enc.raised # None THEN [raised |-> enc.raised]
        ELSE Put(rest, cls[inst.cls].fields[name].db_field, enc.value)

\* class Person(Document) and kin
TargetAttrs(name, base, meta) ==
    Attrs(name, base, "doc", meta, [f \in {"name"} |-> PlainField(None, None)])

\* the hierarchies whose last class is the class of the documents the list
\* holds: a root class without meta line or with one of three, a class
\* below an abstract base, and a subclass of a concrete class
TargetHierarchies ==
    {<<TargetAttrs("Person", 0, m)>> :
        m \in {EmptyDict, [allow_inheritance |-> FALSE], [allow_inheritance |-> TRUE],
               [collection |-> "coll"]}}
    \cup {<<TargetAttrs("Animal", 0, m), p>> :
            m \in {[abstract |-> TRUE], [abstract |-> TRUE, allow_inheritance |-> FALSE]},
            p \in {TargetAttrs("Person", 1, EmptyDict),
                   WithEmptyMeta(TargetAttrs("Person", 1, EmptyDict))}}
    \cup {<<TargetAttrs("Person", 0, m), TargetAttrs("Human", 1, EmptyDict)>> :
            m \in {EmptyDict, [collection |-> "coll"]}}

\* the values a list entry takes: one of the two target documents or a
\* plain value
Entries == {insts[2], insts[3], [plain |-> "v1"]}

\* the hierarchy and Doc defined; two documents of the target class, each
\* saved or not; a new Doc
InitEncode ==
    /\ \E h \in TargetHierarchies :
       \E r \in {DefineAll(<<>>, EmptyDict, h \o <<DocAttrs>>)} :
       \E cls \in {[c \in 1..Len(r.classes) |->
                      [r.classes[c] EXCEPT !.forder = SomeOrder(DOMAIN r.classes[c].fields)]]} :
       \E id1, id2 \in ObjectIds \cup {None} :
         /\ r.err = None
         /\ classes = cls
         /\ registry = r.registry
         /\ insts = <<[BaseDocument_init(cls, Len(cls), EmptyDict) EXCEPT
                          !.data = Put(@, "list_field", <<>>)],
                      NewInstance(cls, Len(h), id1),
                      NewInstance(cls, Len(h), id2)>>
    /\ store = [person |-> EmptyDict, coll |-> EmptyDict, doc |-> EmptyDict]
    /\ last = [op |-> "none"]
    /\ hist = <<>>

\* doc.list_field = [...]
AssignList ==
    /\ \E n \in 0..MaxEntries : \E value \in [1..n -> Entries] :
         insts' = [insts EXCEPT ![1].data = Put(@, "list_field", value)]
    /\ last' = [op |-> "assign"]
    /\ UNCHANGED <<classes, registry, store, hist>>

\* doc.to_mongo()
EncodeContainer ==
    /\ last' = [op |-> "to_mongo", value |-> insts[1].data["list_field"],
                son |-> to_mongo_complex(classes, insts[1], "list_field")]
    /\ UNCHANGED <<classes, registry, store, insts, hist>>

\* doc.save(): the record to_mongo yields is written under a new
\* identifier; an error raised by to_mongo reaches the caller before the
\* store is called
SaveContainer ==
    /\ "oid1" \notin DOMAIN store["doc"]
    /\ \E son \in {to_mongo_complex(classes, insts[1], "list_field")} :
         /\ store' = IF "raised" \in DOMAIN son THEN store
                     ELSE [store EXCEPT !["doc"] = Put(@, "oid1", Put(son, "_id", "oid1"))]
         /\ last' = [op |-> "save", value |-> insts[1].data["list_field"],
                     son |-> son, before |-> store]
    /\ UNCHANGED <<classes, registry, insts, hist>>

NextEncode == AssignList \/ EncodeContainer \/ SaveContainer

SpecEncode == InitEncode /\ [][NextEncode]_vars

\* the positions of a list that hold documents, and those of them never saved
DocumentsIn(value) == {k \in DOMAIN value : IsDocument(value[k])}
UnsavedIn(value) == {k \in DocumentsIn(value) : pk(classes, value[k]) = None}

Encoding == last.op \in {"to_mongo", "save"}

\* is e the direct, or the generic, reference to the document v
IsDirectRef(e, v) ==
    e = Ref(classes[v.cls].meta["collection"], pk(classes, v))
IsGenericRef(e, v) ==
    /\ DOMAIN e = {"_cls", "_ref"}
    /\ e["_cls"] = classes[v.cls].class_name
    /\ e["_ref"] = Ref(classes[v.cls].meta["collection"], pk(classes, v))

(***************************************************************************)
(* C21: encoding a list that holds a document never saved raises           *)
(* ValidationError, yields no record, and a save of it leaves the store    *)
(* as it was; when every document of the list is saved, the encoding       *)
(* yields a record in which each of them is a reference (direct or         *)
(* generic) carrying its collection and identifier.                        *)
(***************************************************************************)
C21_UnsavedRefusedSavedReferenced ==
    Encoding =>
        IF UnsavedIn(last.value) # {}
        THEN /\ last.son = [raised |-> "ValidationError"]
             /\ last.op = "save" => store = last.before
        ELSE /\ "raised" \notin DOMAIN last.son
             /\ \A k \in DocumentsIn(last.value) :
                   \/ IsDirectRef(last.son["list_field"][k], last.value[k])
                   \/ IsGenericRef(last.son["list_field"][k], last.value[k])

\* the part of C21 the code keeps: a list holding a document never saved
\* is never encoded, and its save writes nothing
C21_UnsavedNeverEncoded ==
    (Encoding /\ UnsavedIn(last.value) # {})
        => /\ "raised" \in DOMAIN last.son
           /\ last.op = "save" => store = last.before

\* does the schema of class c permit polymorphism
PermitsPolymorphism(c) == classes[c].meta["allow_inheritance"]

ValidateValues == {None, "v1", "v2", "x3"}

NoChoices == [given |-> FALSE]
NoValidation == [kind |-> "none"]

\* Field(required=..., default=..., choices=..., validation=...)
ValidatedField(ftype, required, default, choices, validation) ==
    Update(BaseField_init(ftype, None, FALSE, default, 0, DO_NOTHING),
           [required |-> required, choices |-> choices, validation |-> validation])

\* field.validate(value), the type check of the field's class: BaseField's
\* does nothing, ObjectIdField's raises ValidationError on what is no
\* ObjectId, StringField's raises ValidationError and DateTimeField's fails
\* an assertion on a value of another type
Field_validate(field, value) ==
    CASE field.ftype = "ObjectIdField" /\ ObjectIdField_to_mongo(value) = "ValidationError"
                                                       -> "ValidationError"
      [] field.ftype = "StringField" /\ value = "x3"   -> "ValidationError"
      [] field.ftype = "DateTimeField" /\ value = "x3" -> "AssertionError"
      [] OTHER                                         -> None

\* BaseField._validate
BaseField_validate(field, value) ==
    LET choices == Get(field, "choices", NoChoices)
        validation == Get(field, "validation", NoValidation)
    IN  IF choices.given /\ value \notin choices.keys THEN "ValidationError"
        ELSE IF validation.kind = "callable" /\ value \notin validation.accepts
        THEN "ValidationError"
        ELSE IF validation.kind = "notcallable" THEN "ValueError"
        ELSE Field_validate(field, value)

\* a validate that checks the values present and not the required fields
BaseDocument_validate_present(cls, inst) ==
    IF \E f \in DOMAIN cls[inst.cls].fields :
          /\ GetAttr(cls, inst, f) # None
          /\ BaseField_validate(cls[inst.cls].fields[f], GetAttr(cls, inst, f)) # None
    THEN "ValidationError"
    ELSE None

\* BaseDocument.validate: every error of a field's _validate leaves as
\* ValidationError (raised as such, or as ValueError, AttributeError or
\* AssertionError and converted), and so does a required field that reads
\* None; the fields are visited in the order of _fields and the first
\* failure ends the loop
BaseDocument_validate(cls, inst) ==
    IF \E f \in DOMAIN cls[inst.cls].fields :
          LET field == cls[inst.cls].fields[f]
              value == GetAttr(cls, inst, f)
          IN  IF value # None
              THEN BaseField_validate(field, value)
                      \in {"ValidationError", "ValueError", "AttributeError", "AssertionError"}
              ELSE field.required
    THEN "ValidationError"
    ELSE None

\* class Comment(Document): content = StringField(...); date = DateTimeField(...)
CommentBodies ==
    {Attrs("Comment", 0, "doc", EmptyDict,
           [f \in {"content", "date"} |-> IF f = "content" THEN c ELSE d]) :
        c \in {ValidatedField("StringField", req, dflt, ch, val) :
                  req \in BOOLEAN, dflt \in {None, "v2"},
                  ch \in {NoChoices, [given |-> TRUE, keys |-> {"v1"}]},
                  val \in {NoValidation, [kind |-> "callable", accepts |-> {"v1", "x3"}],
                           [kind |-> "notcallable"]}},
        d \in {ValidatedField("DateTimeField", req, None, NoChoices, NoValidation) :
                  req \in BOOLEAN}}

InitValidate ==
    /\ \E body \in CommentBodies :
       \E r \in {DefineAll(<<>>, EmptyDict, <<body>>)} :
       \E cls \in {[c \in 1..Len(r.classes) |->
                      [r.classes[c] EXCEPT !.forder = SomeOrder(DOMAIN r.classes[c].fields)]]} :
         /\ classes = cls
         /\ registry = r.registry
         /\ insts = <<BaseDocument_init(cls, 1, EmptyDict)>>
    /\ store = [comment |-> EmptyDict]
    /\ last = [op |-> "none"]
    /\ hist = <<>>

\* comment.f = v
ValidateAssign ==
    /\ \E f \in {"content", "date"} : \E v \in ValidateValues :
         insts' = <<Document_setattr(classes, insts[1], f, v)>>
    /\ last' = [op |-> "assign"]
    /\ UNCHANGED <<classes, registry, store, hist>>

\* comment.validate()
Validate ==
    /\ last' = [op |-> "validate", err |-> BaseDocument_validate(classes, insts[1])]
    /\ UNCHANGED <<classes, registry, store, insts, hist>>

\* comment.save(validate=flag): validate() comes first when asked for, and
\* what it raises reaches the caller before anything is encoded or written
SaveValidated ==
    /\ GetAttr(classes, insts[1], "id") = None
    /\ \E flag \in BOOLEAN :
       \E err \in {IF flag THEN BaseDocument_validate(classes, insts[1]) ELSE None} :
         /\ store' = IF err # None THEN store
                     ELSE SaveStore(classes, store, insts[1], "oid1")
         /\ insts' = IF err # None THEN insts
                     ELSE <<SaveInst(classes, insts[1], "oid1")>>
         /\ hist' = IF err # None THEN hist ELSE Append(hist, "persist")
         /\ last' = [op |-> "save", validate |-> flag, err |-> err, before |-> store,
                     inst |-> insts[1], calls |-> Len(hist)]
    /\ UNCHANGED <<classes, registry>>

NextValidate == ValidateAssign \/ Validate \/ SaveValidated

SpecValidate == InitValidate /\ [][NextValidate]_vars

\* the failures the claim names, read off the instance
Invalid(inst) ==
    \E f \in DOMAIN classes[inst.cls].fields :
        LET field == classes[inst.cls].fields[f]
            value == GetAttr(classes, inst, f)
            choices == Get(field, "choices", NoChoices)
            validation == Get(field, "validation", NoValidation)
        IN  \/ field.required /\ value = None
            \/ value # None /\ choices.given /\ value \notin choices.keys
            \/ value # None /\ validation.kind = "callable" /\ value \notin validation.accepts
            \/ value # None /\ Field_validate(field, value) # None

(***************************************************************************)
(* C23: when a field of the instance is required and reads None, or holds  *)
(* a value outside its choices, or one its validator rejects, or one that  *)
(* fails the type check, validate() raises ValidationError, and a save     *)
(* that validates raises it, calls persist not once and leaves the store   *)
(* and the instance as they were.                                          *)
(***************************************************************************)
C23_ValidationFailsClosed ==
    /\ (last.op = "validate" /\ Invalid(insts[1])) => last.err = "ValidationError"
    /\ (last.op = "save" /\ last.validate /\ Invalid(last.inst))
          => /\ last.err = "ValidationError"
             /\ store = last.before
             /\ Len(hist) = last.calls
             /\ insts[1] = last.inst

\* a save refused for a required field that has no value, in a state where
\* a save that does not validate would have written
C23_Witness ==
    /\ last.op = "save"
    /\ last.validate
    /\ last.err = "ValidationError"
    /\ \E f \in DOMAIN classes[1].fields :
          classes[1].fields[f].required /\ GetAttr(classes, last.inst, f) = None
    /\ store["comment"] = EmptyDict

(***************************************************************************)
(* SpecInherit: Person, its subclass Employee and BlogPost(author ->       *)
(* Person, with a rule), Employee defined before or after BlogPost.        *)
(* Persons and employees share the collection of Person; a stored          *)
(* document is deleted through an instance of the class its record names.  *)
(***************************************************************************)
\* class Employee(Person): pass
EmployeeAttrs == Attrs("Employee", 1, "doc", EmptyDict, EmptyDict)

InitInherit ==
    /\ \E rule \in Rules \ {DO_NOTHING} :
       \E stmts \in {<<PersonAttrs, EmployeeAttrs, BlogPostAttrs(rule, DO_NOTHING)>>,
                     <<PersonAttrs, BlogPostAttrs(rule, DO_NOTHING), EmployeeAttrs>>} :
       \E r \in {DefineAll(<<>>, EmptyDict, stmts)} :
         /\ r.err = None
         /\ classes = [c \in 1..Len(r.classes) |->
                         [r.classes[c] EXCEPT !.forder = SomeOrder(DOMAIN r.classes[c].fields)]]
         /\ registry = r.registry
    /\ store = [person |-> EmptyDict, blogpost |-> EmptyDict]
    /\ insts = <<>>
    /\ last = NoOp
    /\ hist = EmptyDict

\* doc.delete() on a stored document, doc an instance of the class c that
\* the record's _cls names
DeleteStored ==
    \E c \in 1..3 :
      \E id \in DOMAIN store[CollectionOf(classes, c)] :
        \E ro \in RuleOrders, io \in Orders(ObjectIds) :
        \E r \in {DeleteEvent(classes, store, c, id, <<>>, <<>>, [rules |-> ro, ids |-> io])} :
          /\ store[CollectionOf(classes, c)][id]["_cls"] = classes[c].class_name
          /\ store' = r.st
          /\ last' = [op |-> "delete", cls |-> c, id |-> id, err |-> r.err, log |-> r.log]
          /\ hist' = store
          /\ UNCHANGED <<classes, registry, insts>>

NextInherit == InsertDoc \/ DeleteStored

SpecInherit == InitInherit /\ [][NextInherit]_vars

\* the class BlogPost and the rule its author field was declared with
PostClass == registry["BlogPost"]
AuthorRule == classes[PostClass].fields["author"].reverse_delete_rule

\* the posts of a store whose author is the document ref
PostsOf(st, ref) ==
    {m \in DOMAIN st["blogpost"] :
        "author" \in DOMAIN st["blogpost"][m] /\ st["blogpost"][m]["author"] = ref}

(***************************************************************************)
(* C24: the rule that BlogPost.author (a reference to Person) was declared *)
(* with applies when the deleted document is an Employee, a subclass of    *)
(* Person stored in Person's collection, defined before or after BlogPost: *)
(* DENY refuses the delete while a post refers to the employee, CASCADE    *)
(* removes those posts and NULLIFY clears their author.                    *)
(***************************************************************************)
C24_RuleAppliesToSubclass ==
    (Deleted /\ classes[last.cls].name = "Employee" /\ PostsOf(hist, DRef) # {})
        => CASE AuthorRule = DENY -> last.err = "OperationError" /\ store = hist
             [] AuthorRule = CASCADE ->
                   /\ last.err = None
                   /\ \A m \in PostsOf(hist, DRef) : m \notin DOMAIN store["blogpost"]
             [] OTHER ->
                   /\ last.err = None
                   /\ PostsOf(store, DRef) = {}
                   /\ DOMAIN store["blogpost"] = DOMAIN hist["blogpost"]

\* the same of a document of Person itself, which the engine does
C24_RuleAppliesToTarget ==
    (Deleted /\ classes[last.cls].name = "Person" /\ PostsOf(hist, DRef) # {})
        => CASE AuthorRule = DENY -> last.err = "OperationError" /\ store = hist
             [] AuthorRule = CASCADE ->
                   /\ last.err = None
                   /\ \A m \in PostsOf(hist, DRef) : m \notin DOMAIN store["blogpost"]
             [] OTHER ->
                   /\ last.err = None
                   /\ PostsOf(store, DRef) = {}
                   /\ DOMAIN store["blogpost"] = DOMAIN hist["blogpost"]

\* a read after the first one
LaterRead == last.op = "get" /\ last.n > 1

(***************************************************************************)
(* C25 (as stated): a read after the first one issues no lookup and        *)
(* returns the entries the read before it returned, whatever that read     *)
(* resolved.                                                               *)
(***************************************************************************)
C25_LaterReadsIssueNoLookup ==
    LaterRead => last.lookups = <<>> /\ last.value = last.prev

(***************************************************************************)
(* C25 (amended): a read after the first one leaves every entry that is no *)
(* raw reference in what the read before it returned as it is, and issues  *)
(* lookups for the raw references left in it alone, one per collection     *)
(* among them: none when no raw reference is left.                         *)
(***************************************************************************)
C25_LaterReadsResolveTheRest ==
    LaterRead =>
        LET colls == {v.collection : v \in RefsOf(last.prev)}
        IN  /\ Len(last.value) = Len(last.prev)
            /\ \A k \in DOMAIN last.prev : ~IsDBRef(last.prev[k]) => last.value[k] = last.prev[k]
            /\ Len(last.lookups) = Cardinality(colls)
            /\ \A c \in colls :
                  \E i \in DOMAIN last.lookups :
                      last.lookups[i] = [collection |-> c, ids |-> IdsIn(last.prev, c)]

\* a second read of a list in which the first read resolved one reference
\* and left another raw: one lookup
C25_Witness ==
    /\ LaterRead
    /\ \E k \in DOMAIN last.prev : IsDocument(last.prev[k])
    /\ \E k \in DOMAIN last.prev : IsDBRef(last.prev[k])
    /\ Len(last.lookups) = 1

\* is v the decoded document that the reference ref points at
Resolves(v, ref) ==
    /\ IsDocument(v)
    /\ CollectionOf(classes, v.cls) = ref.collection
    /\ GetAttr(classes, v, "id") = ref.id

(***************************************************************************)
(* C26: the first read returns a list of the length it found in which      *)
(* every reference whose record exists is replaced, at its position, by    *)
(* the decoded document, and every entry that is no reference is the entry *)
(* it was, also when several positions reference the same document.        *)
(***************************************************************************)
C26_ResolvedInPlace ==
    (FirstRead /\ last.err = None) =>
        /\ Len(last.value) = Len(last.before)
        /\ \A k \in DOMAIN last.before :
              IF IsDBRef(last.before[k])
              THEN k \notin Unresolvable(last.before) => Resolves(last.value[k], last.before[k])
              ELSE last.value[k] = last.before[k]

\* the same of a list whose references all differ
C26_ResolvedInPlaceDistinct ==
    (FirstRead /\ last.err = None
        /\ \A j, k \in DOMAIN last.before :
              (IsDBRef(last.before[j]) /\ last.before[j] = last.before[k]) => j = k) =>
        /\ Len(last.value) = Len(last.before)
        /\ \A k \in DOMAIN last.before :
              IF IsDBRef(last.before[k])
              THEN k \notin Unresolvable(last.before) => Resolves(last.value[k], last.before[k])
              ELSE last.value[k] = last.before[k]

(***************************************************************************)
(* SpecRegistry: class statements of top-level documents that name their   *)
(* class Person or BlogPost, so that a name is defined again, with bodies  *)
(* that raise each of the definition errors, and get_document.  hist lists *)
(* the classes that failed statements left behind; last.before is the      *)
(* registry and the classes as the statement found them.                   *)
(***************************************************************************)
MaxDefs == 2

RegistryNames == {"Person", "BlogPost"}

\* the classes a class statement can name as base or as the target of a
\* reference: those whose statement succeeded
Defined == (1..Len(classes)) \ Range(hist)

\* the class bodies: nothing, a meta that disables inheritance or declares
\* the class abstract, a primary key, a reference with a rule, and a
\* primary key under another name together with such a reference
RegistryBodies ==
    {[meta |-> m, fields |-> EmptyDict] :
        m \in {EmptyDict, [allow_inheritance |-> FALSE], [abstract |-> TRUE]}}
    \cup {[meta |-> EmptyDict, fields |-> [username |-> PrimaryKeyField]]}
    \cup UNION {{[meta |-> EmptyDict, fields |-> [author |-> ReferenceField(t, CASCADE)]],
                 [meta |-> EmptyDict,
                  fields |-> [f \in {"email", "author"} |->
                                 IF f = "email" THEN PrimaryKeyField
                                 ELSE ReferenceField(t, CASCADE)]]} :
                t \in {c \in Defined : ~IsAbstract(classes, c)}}

\* class <name>(<base>): <body>
DefineNamed ==
    /\ Defining
    /\ Len(classes) < MaxDefs
    /\ \E name \in RegistryNames, base \in {0} \cup Defined, body \in RegistryBodies :
       \E skeys \in Orders(SuperclassIds(classes, base)) :
       \E attrs \in {Attrs(name, base, "doc", body.meta, body.fields)} :
       \E r \in {ClassStatement(classes, registry, attrs, skeys)} :
         /\ classes' = r.classes
         /\ registry' = r.registry
         /\ last' = [op |-> "class", attrs |-> attrs, err |-> r.err,
                     before |-> [registry |-> registry, classes |-> classes]]
         /\ hist' = IF r.err # None /\ Len(r.classes) > Len(classes)
                    THEN Append(hist, Len(r.classes)) ELSE hist
    /\ UNCHANGED <<store, insts>>

\* get_document(name)
GetDocument ==
    /\ Defining
    /\ \E name \in RegistryNames \cup {"Ghost"} :
         last' = [op |-> "get_document", name |-> name,
                  result |-> get_document(registry, <<name>>)]
    /\ UNCHANGED <<classes, registry, store, insts, hist>>

NextRegistry == DefineNamed \/ GetDocument

SpecRegistry == InitSchema /\ [][NextRegistry]_vars

\* the classes built under the name k, in the order of their statements
Named(k) == {c \in 1..Len(classes) : classes[c].name = k}

(***************************************************************************)
(* C27 (as stated): a class statement leaves every entry the registry had  *)
(* as it was, and get_document yields the entry of a registered name and   *)
(* raises NotRegistered for a name never registered.                       *)
(***************************************************************************)
C27_RegistryWriteOnce ==
    /\ last.op = "class" =>
          \A k \in DOMAIN last.before.registry :
              k \in DOMAIN registry /\ registry[k] = last.before.registry[k]
    /\ last.op = "get_document" =>
          last.result = IF Named(last.name) = {} THEN 0 ELSE registry[last.name]

(***************************************************************************)
(* C27 (amended): a class statement removes no entry and leaves the entry  *)
(* of every other name as it was; the entry of its own name is the class   *)
(* it built, so a name holds the class most recently built under it;       *)
(* get_document yields that class and raises NotRegistered for a name      *)
(* never registered.                                                       *)
(***************************************************************************)
C27_RegistryLastDefinitionWins ==
    /\ \A k \in DOMAIN registry :
          Named(k) # {} /\ registry[k] = CHOOSE c \in Named(k) : \A d \in Named(k) : d <= c
    /\ last.op = "class" =>
          \A k \in DOMAIN last.before.registry :
              /\ k \in DOMAIN registry
              /\ k # last.attrs.name => registry[k] = last.before.registry[k]
    /\ last.op = "get_document" =>
          last.result = IF Named(last.name) = {} THEN 0
                        ELSE CHOOSE c \in Named(last.name) : \A d \in Named(last.name) : d <= c

\* a name defined a second time, with success, and get_document of it
C27_Witness ==
    /\ last.op = "get_document"
    /\ Cardinality(Named(last.name)) > 1
    /\ last.result \notin Range(hist)
    /\ last.result = Len(classes)

(***************************************************************************)
(* C30: a class statement that fails with the definition error             *)
(* (ValueError) leaves the registry as it was, the rejected class not in   *)
(* it, and every class that existed as it was, no delete rule of the       *)
(* rejected class registered on it.                                        *)
(***************************************************************************)
C30_FailedDefinitionLeavesNothing ==
    (last.op = "class" /\ last.err = "ValueError") =>
        /\ registry = last.before.registry
        /\ \A c \in 1..Len(last.before.classes) : classes[c] = last.before.classes[c]

\* the same of the three definition errors raised before the class is built
C30_EarlyErrorsLeaveNothing ==
    (last.op = "class" /\ last.err = "ValueError" /\ PrimaryKeys(last.attrs) = {}) =>
        /\ registry = last.before.registry
        /\ classes = last.before.classes

(***************************************************************************)
(* SpecEq: documents of Person, of its subclass Employee and of BlogPost,  *)
(* saved (with an identifier) or new (identifier None), compared and       *)
(* hashed.  insts[i] is the i-th object; two objects are one and the same  *)
(* when they have the same index.                                          *)
(***************************************************************************)
MaxInsts == 2

\* isinstance(other, self.__class__)
IsInstance(cls, other, c) == other.cls = c \/ IsAncestor(cls, c, other.cls)

\* BaseDocument.__eq__(self, other); every document has the attribute id
BaseDocument_eq(cls, self, other) ==
    IsInstance(cls, other, self.cls) /\ GetAttr(cls, self, "id") = GetAttr(cls, other, "id")

\* a == b: Python asks the right operand first when its class is a proper
\* subclass of the left operand's, and __eq__ never answers NotImplemented
Eq(cls, a, b) ==
    IF a.cls # b.cls /\ IsInstance(cls, b, a.cls)
    THEN BaseDocument_eq(cls, b, a)
    ELSE BaseDocument_eq(cls, a, b)

\* BaseDocument.__hash__ of the i-th object: object.__hash__, which tells
\* objects apart, when pk is None, else the hash of pk
BaseDocument_hash(cls, i, self) ==
    IF pk(cls, self) = None THEN [object |-> i] ELSE [hash |-> pk(cls, self)]

InitEq ==
    /\ \E r \in {DefineAll(<<>>, EmptyDict,
                           <<PersonAttrs, EmployeeAttrs, BlogPostAttrs(DO_NOTHING, DO_NOTHING)>>)} :
       \E cls \in {[c \in 1..Len(r.classes) |->
                      [r.classes[c] EXCEPT !.forder = SomeOrder(DOMAIN r.classes[c].fields)]]} :
       \E cs \in [1..MaxInsts -> 1..3], ids \in [1..MaxInsts -> ObjectIds \cup {None}] :
         /\ classes = cls
         /\ registry = r.registry
         /\ insts = [i \in 1..MaxInsts |-> NewInstance(cls, cs[i], ids[i])]
    /\ store = EmptyDict
    /\ last = NoOp
    /\ hist = <<>>

\* a == b, b == a, hash(a), hash(b)
Compare ==
    /\ \E i, j \in 1..MaxInsts :
         last' = [op |-> "eq", a |-> i, b |-> j,
                  ab |-> Eq(classes, insts[i], insts[j]),
                  ba |-> Eq(classes, insts[j], insts[i]),
                  ha |-> BaseDocument_hash(classes, i, insts[i]),
                  hb |-> BaseDocument_hash(classes, j, insts[j])]
    /\ UNCHANGED <<classes, registry, store, insts, hist>>

SpecEq == InitEq /\ [][Compare]_vars

(***************************************************************************)
(* C28: for any two documents a and b, a == b implies b == a and           *)
(* hash(a) = hash(b); two distinct new documents, both without             *)
(* identifier, are not equal with different hashes.                        *)
(***************************************************************************)
C28_EqHashConsistent ==
    (last.op = "eq" /\ last.ab) => last.ba /\ last.ha = last.hb

\* the part the code keeps: == is symmetric, and equal documents that have
\* an identifier hash alike
C28_EqSymmetricSavedHashAlike ==
    (last.op = "eq" /\ last.ab)
        => /\ last.ba
           /\ "hash" \in DOMAIN last.ha => last.ha = last.hb

(***************************************************************************)
(* SpecCascade: the deletion procedure run call by call.  hist is the      *)
(* stack of the calls of delete in progress, innermost last; a call is at  *)
(* the rule Head(rkeys) of its class's _meta['delete_rules'], has asked    *)
(* for the documents that rule matches or not yet, and ms are the matches  *)
(* it still has to delete.  The classes are                                *)
(*   Person(boss -> 'self', fav -> BlogPost);  BlogPost(author -> Person), *)
(* boss and author declared with a rule, the rule of fav registered on     *)
(* BlogPost after both classes exist.  A call nested deeper than the       *)
(* interpreter's recursion limit raises RuntimeError.                      *)
(***************************************************************************)
MaxDepth == 3

PersonCascadeAttrs(rs) ==
    Attrs("Person", 0, "doc", EmptyDict,
          [f \in {"boss", "fav"} |-> IF f = "boss" THEN ReferenceField(1, rs)
                                     ELSE ReferenceField(2, DO_NOTHING)])

BlogPostCascadeAttrs ==
    Attrs("BlogPost", 0, "doc", EmptyDict, [f \in {"author"} |-> ReferenceField(1, CASCADE)])

InitCascade ==
    /\ \E rs \in {CASCADE, NULLIFY}, rf \in {CASCADE, DO_NOTHING} :
         LET r == DefineAll(<<>>, EmptyDict, <<PersonCascadeAttrs(rs), BlogPostCascadeAttrs>>)
             cls == [c \in 1..Len(r.classes) |->
                       [r.classes[c] EXCEPT !.forder = SomeOrder(DOMAIN r.classes[c].fields)]]
         IN  /\ r.err = None
             /\ classes = IF rf = DO_NOTHING THEN cls
                          ELSE [cls EXCEPT ![2] = register_delete_rule(cls[2], 1, "fav", rf)]
             /\ registry = r.registry
    /\ store = [person |-> EmptyDict, blogpost |-> EmptyDict]
    /\ insts = <<>>
    /\ last = NoOp
    /\ hist = <<>>

Deleting == last.op = "deleting"

\* the identifiers the documents of class c are saved under
CascadeIds(c) == IF c = 2 THEN {"oid1"} ELSE ObjectIds

\* doc = Class(id=id, field=referenced document or None, ...); doc.save()
SaveReferring ==
    /\ ~Deleting
    /\ \E c \in 1..2 :
       \E id \in CascadeIds(c) :
       \E values \in [RefFields(classes, c) -> ObjectIds \cup {None}] :
         LET target(f) == CollectionOf(classes, classes[c].fields[f].document_type)
             given == {f \in DOMAIN values : values[f] # None}
             key(f) == classes[c].fields[f].db_field
         IN  /\ \A f \in given : values[f] \in DOMAIN store[target(f)] \cup {id}
             /\ \A f \in given : values[f] = id => target(f) = CollectionOf(classes, c)
             /\ store' = persist(store, CollectionOf(classes, c), id,
                                 [k \in {key(f) : f \in given} |->
                                    LET f == CHOOSE g \in given : key(g) = k
                                    IN  DBRef(target(f), values[f])],
                                 [k \in {key(f) : f \in (DOMAIN values) \ given} |-> 1])
    /\ last' = NoOp
    /\ hist' = <<>>
    /\ UNCHANGED <<classes, registry, insts>>

\* the error err leaves every call in progress
Unwind(lst, err) ==
    /\ hist' = <<>>
    /\ last' = [lst EXCEPT !.op = "raised", !.err = err]

\* delete is called on document id of class c from the calls in stack: the
\* pre-flight of the DENY rules, then the call is at its first rule
Call(c, id, stack, lst) ==
    LET rules == classes[c].meta["delete_rules"]
        pre == DenyChecks(classes, store, rules, SomeOrder(DOMAIN rules),
                          DBRef(CollectionOf(classes, c), id), <<>>, <<>>)
    IN  IF Len(stack) >= MaxDepth THEN Unwind(lst, "RuntimeError")
        ELSE IF pre.err # None THEN Unwind(lst, pre.err)
        ELSE \E ro \in Orders(DOMAIN rules) :
               /\ hist' = Append(stack, [c |-> c, id |-> id, rkeys |-> ro,
                                         asked |-> FALSE, ms |-> <<>>])
               /\ last' = lst

\* doc.delete() on a stored document
StartDelete ==
    /\ ~Deleting
    /\ \E c \in 1..2 :
       \E id \in DOMAIN store[CollectionOf(classes, c)] :
         Call(c, id, <<>>, [op |-> "deleting", cls |-> c, id |-> id, err |-> None, log |-> <<>>])
    /\ UNCHANGED <<classes, registry, store, insts>>

\* the innermost call goes one step on: it asks for the matches of its
\* rule, deletes the next match, goes to its next rule, or, its rules done,
\* issues the store's delete of its own document and returns
Step ==
    /\ Deleting
    /\ hist # <<>>
    /\ LET n == Len(hist)
           f == hist[n]
           coll == CollectionOf(classes, f.c)
           ref == DBRef(coll, f.id)
           rules == classes[f.c].meta["delete_rules"]
           next == [f EXCEPT !.rkeys = Tail(@), !.asked = FALSE, !.ms = <<>>]
       IN  IF f.rkeys = <<>>
           THEN /\ store' = store_delete(store, coll, f.id)
                /\ hist' = SubSeq(hist, 1, n - 1)
                /\ last' = [last EXCEPT !.log = Append(@, ref),
                                        !.op = IF n = 1 THEN "returned" ELSE @]
           ELSE LET rk == Head(f.rkeys)
                    found == Referrers(classes, store, rk, ref)
                IN  IF ~f.asked
                    THEN CASE rules[rk] = CASCADE ->
                                \E ms \in Orders(found) :
                                  /\ hist' = [hist EXCEPT ![n] = [f EXCEPT !.asked = TRUE, !.ms = ms]]
                                  /\ UNCHANGED <<store, last>>
                           [] rules[rk] = NULLIFY ->
                                /\ store' = NullifyAll(classes, store, rk, SomeOrder(found),
                                                       <<>>, <<>>).st
                                /\ hist' = [hist EXCEPT ![n] = next]
                                /\ UNCHANGED last
                           [] OTHER ->
                                /\ hist' = [hist EXCEPT ![n] = next]
                                /\ UNCHANGED <<store, last>>
                    ELSE IF f.ms = <<>>
                    THEN /\ hist' = [hist EXCEPT ![n] = next]
                         /\ UNCHANGED <<store, last>>
                    ELSE IF Head(f.ms) \notin DOMAIN store[CollectionOf(classes, rk[1])]
                    THEN /\ hist' = [hist EXCEPT ![n] = [f EXCEPT !.ms = Tail(@)]]
                         /\ UNCHANGED <<store, last>>
                    ELSE /\ Call(rk[1], Head(f.ms), [hist EXCEPT ![n] = [f EXCEPT !.ms = Tail(@)]], last)
                         /\ UNCHANGED store
    /\ UNCHANGED <<classes, registry, insts>>

NextCascade == SaveReferring \/ StartDelete \/ Step

SpecCascade == InitCascade /\ [][NextCascade]_vars

\* a call of delete in progress is not left where it stands
SpecCascadeFair == SpecCascade /\ WF_vars(Step)

(***************************************************************************)
(* C29: a deletion always terminates: whatever the stored documents and    *)
(* the CASCADE rules, reference cycles and self-references included, a     *)
(* delete in progress comes to an end, it ends by returning, and it has    *)
(* issued at most one store delete per document.                           *)
(***************************************************************************)
OncePerDocument(log) == \A i, j \in DOMAIN log : log[i] = log[j] => i = j

C29_DeleteReturnsOncePerDocument ==
    /\ [](last.op \in {"deleting", "returned", "raised"} => OncePerDocument(last.log))
    /\ [][Deleting => last'.op \in {"deleting", "returned"}]_vars
    /\ Deleting ~> ~Deleting

\* the documents CASCADE rules make a deletion of document x delete next
CascadesTo(x) ==
    LET rules == classes[x[1]].meta["delete_rules"]
    IN  {y \in (1..2) \X ObjectIds :
           \E rk \in DOMAIN rules :
             /\ rules[rk] = CASCADE /\ rk[1] = y[1]
             /\ y[2] \in Referrers(classes, store, rk, DBRef(CollectionOf(classes, x[1]), x[2]))}

\* a stored document whose deletion cascades back to itself
OnCascadeCycle(x) ==
    /\ x[2] \in DOMAIN store[CollectionOf(classes, x[1])]
    /\ \E y \in CascadesTo(x) :
         \/ y = x
         \/ \E z \in CascadesTo(y) : z = x \/ x \in CascadesTo(z)

\* what the engine keeps: a delete comes to an end, no document is deleted
\* twice, and it ends in RuntimeError only with a cascade cycle in the store
C29_DeleteEndsRaisesOnCycleOnly ==
    /\ [](last.op \in {"deleting", "returned", "raised"} => OncePerDocument(last.log))
    /\ [](last.op = "raised" => /\ last.err = "RuntimeError"
                                /\ \E x \in (1..2) \X ObjectIds : OnCascadeCycle(x))
    /\ Deleting ~> ~Deleting

\* a delete that cascaded through a chain of three documents has returned
C29_ChainReturned == last.op = "returned" /\ Len(last.log) = 3

====
